---- MODULE Spec2Model ----
(***************************************************************************)
(* Encrypted, versioned virtual filesystem of core-3nweb-client-lib.       *)
(*                                                                         *)
(* One XspFS (with its versioned API V) is mounted on a storage and holds  *)
(* one file path.  Callers write the file through V.writeBytes             *)
(* (FileNode.save) and V.getByteSink (FileNode.writeSink), read it through *)
(* V.readBytes (FileNode.readBytes), watch it through XspFS.watchFile, and *)
(* close the filesystem with XspFS.close.  Every await of the source is a  *)
(* point where the other processes may run.                                *)
(*                                                                         *)
(* Specifications: SpecW, the writers alone on a local storage; SpecWR,    *)
(* writers and a reader on every type of storage; SpecFS, one writer, a    *)
(* reader and an observer on a filesystem that gets closed; Spec, all.     *)
(***************************************************************************)
EXTENDS Integers, Sequences, FiniteSets, TLC

\* ------------------------------------------------------------------ bounds
MaxOps == 2               \* write calls made in one behaviour
MaxLen == 1               \* longest byte content written
MaxCurrentVersion == 1    \* largest currentVersion a caller passes
MaxCloses == 2            \* calls of close in one behaviour
MaxTreeOps == 2           \* calls of the tree operations in one behaviour
MaxFileEvents == 2        \* file-change events in one behaviour
MaxPathLen == 4           \* characters of a path given to splitPathIntoParts
MaxRemoteEvents == 2      \* events of the server in one behaviour

\* --------------------------------------------------------------- constants
Undefined == -100       \* JavaScript undefined where a number is expected

Writers == {"w1", "w2"}
Watchers == {"o1"}
Readers == {"r1"}
NoWriter == "nobody"
Byte == {0, 1}
FilePath == "/f"
FileName == "f"
StorageTypes == {"local", "synced", "share"}

RECURSIVE SeqsUpTo(_)
SeqsUpTo(n) ==
  IF n = 0 THEN {<<>>}
  ELSE LET shorter == SeqsUpTo(n - 1)
       IN shorter \cup {Append(s, b) : s \in {t \in shorter : Len(t) = n - 1}, b \in Byte}

Contents == SeqsUpTo(MaxLen)

Min(a, b) == IF a < b THEN a ELSE b
Max(a, b) == IF a > b THEN a ELSE b

\* ------------------------------------------------ lib-common/exceptions/file
\* The table Code: the names the source defines, with their codes.
Code ==
  [notFound |-> "ENOENT", alreadyExists |-> "EEXIST", notDirectory |-> "ENOTDIR",
   notFile |-> "ENOTFILE", notLink |-> "not-link", isDirectory |-> "EISDIR",
   notEmpty |-> "ENOTEMPTY", endOfFile |-> "EEOF", opNotPermitted |-> "EPERM",
   busy |-> "EBUSY", ioError |-> "EIO", concurrentUpdate |-> "concurrent-update",
   parsingError |-> "parsing-error", notImplemented |-> "ENOSYS",
   isEndless |-> "is-endless"]

\* excCode.<name>: a property the table lacks reads as undefined.
excCode(name) == IF name \in DOMAIN Code THEN Code[name] ELSE "undefined"

\* makeFileException(code, path): flags lists the boolean markers set on the
\* exception object, one for the name whose code was given.
makeFileException(code, path) ==
  [type |-> "file", code |-> code, path |-> path,
   flags |-> IF code = "undefined" THEN {}
             ELSE {n \in DOMAIN Code : Code[n] = code}]

makeVersionMismatchExc(path) ==
  [type |-> "file", code |-> "undefined", path |-> path,
   flags |-> {"versionMismatch"}]

\* A plain Error or a failure of the store: not a file exception.
PlainError(msg) == [type |-> "error", code |-> msg, path |-> "", flags |-> {}]

NoExc == [type |-> "none", code |-> "", path |-> "", flags |-> {}]

\* setExcPath: the path is rewritten on four kinds of file exception only.
setExcPath(path, exc) ==
  IF exc.flags \cap {"notFound", "notDirectory", "alreadyExists", "notFile"} # {}
  THEN [exc EXCEPT !.path = path] ELSE exc

\* ------------------------------------------------------------ folder tree
\* Object ids: the root folder, the folders, files and links the storage can
\* hand out.  NoId stands for undefined (the parent of the root).
RootId == 0
FolderIds == {0, 1, 2}
FileIds == {3, 4}
LinkIds == {5}
ObjIds == FolderIds \cup FileIds \cup LinkIds
NoId == -1
Names == {"a", "b", "f", "g"}

typeOf(objId) ==
  IF objId \in FolderIds THEN "folder"
  ELSE IF objId \in FileIds THEN "file" ELSE "link"

\* The key of a node: picked at random when the node is made, so no two
\* nodes have the same.  NoKey: no key.
keyOf(objId) == <<"key", objId>>
NoKey == <<>>

\* A node of the tree: whether its id is unused, present or removed, the
\* folder that lists it, its name there, and the key that the folder's
\* payload has in the entry.
UnusedNode == [state |-> "unused", parent |-> NoId, name |-> "", key |-> NoKey]

\* An entry that carries the key of the folder it is in.
newEntryWithParentKey(folder, name, id) ==
  [state |-> "present", parent |-> folder, name |-> name, key |-> keyOf(folder)]

\* The entry {objId, key, kind} a folder's payload gets for a new child.
newEntry(folder, name, id) ==
  [state |-> "present", parent |-> folder, name |-> name, key |-> keyOf(id)]

\* The tree every run starts from: /a/f and /g.
InitialTree ==
  [o \in ObjIds |->
     IF o = RootId
     THEN [state |-> "present", parent |-> NoId, name |-> "", key |-> NoKey]
     ELSE IF o = 1 THEN newEntry(RootId, "a", o)
     ELSE IF o = 3 THEN newEntry(1, "f", o)
     ELSE IF o = 4 THEN newEntry(RootId, "g", o)
     ELSE UnusedNode]

\* Paths are strings; the parts of a path are the names between slashes.
RECURSIVE join(_)
join(parts) == IF parts = <<>> THEN "" ELSE "/" \o Head(parts) \o join(Tail(parts))

\* parts.join('/')
joinParts(parts) ==
  IF parts = <<>> THEN "" ELSE Head(parts) \o join(Tail(parts))

PathParts == {<<>>} \cup {<<n>> : n \in Names} \cup {<<n, k>> : n, k \in Names}

\* The paths callers pass: the root and every path of one or two names.
TreePaths == {IF p = <<>> THEN "/" ELSE join(p) : p \in PathParts}

splitPathIntoParts(path) ==
  IF path = "/" THEN <<>> ELSE CHOOSE p \in PathParts : join(p) = path

\* split(path): the last part as fileName (undefined for the root path) and
\* the parts before it.
split(path) ==
  LET parts == splitPathIntoParts(path)
  IN IF parts = <<>> THEN [folderPath |-> <<>>, fileName |-> "undefined"]
     ELSE [folderPath |-> SubSeq(parts, 1, Len(parts) - 1),
           fileName |-> parts[Len(parts)]]

\* ------------------------------------------------- paths, char by char
\* A path as a caller may write it: any characters, '/', '.' and letters.
PathChars == {"/", ".", "a", "b"}

RECURSIVE charSeqs(_)
charSeqs(n) ==
  IF n = 0 THEN {<<>>}
  ELSE charSeqs(n - 1)
       \cup {Append(c, ch) : c \in {q \in charSeqs(n - 1) : Len(q) = n - 1},
                             ch \in PathChars}

PathInputs == charSeqs(MaxPathLen)

\* String.split('/'): the pieces between the separators, empty ones too.
RECURSIVE splitOnSlash(_, _, _)
splitOnSlash(chars, piece, done) ==
  IF chars = <<>> THEN Append(done, piece)
  ELSE IF Head(chars) = "/"
       THEN splitOnSlash(Tail(chars), <<>>, Append(done, piece))
       ELSE splitOnSlash(Tail(chars), Append(piece, Head(chars)), done)

\* A resolution that leaves every piece as it is, '.' and '..' too.
posixResolveKeepingDots(chars) == splitOnSlash(chars, <<>>, <<>>)

\* normalizeString of posix.resolve: the pieces are gone through from left
\* to right; an empty piece and '.' are dropped, '..' takes the last kept
\* piece away, if there is one.
RECURSIVE normalizeString(_, _)
normalizeString(pieces, kept) ==
  IF pieces = <<>> THEN kept
  ELSE LET piece == Head(pieces)
       IN IF piece = <<>> \/ piece = <<".">>
          THEN normalizeString(Tail(pieces), kept)
          ELSE IF piece = <<".", ".">>
               THEN normalizeString(Tail(pieces),
                      IF kept = <<>> THEN kept
                      ELSE SubSeq(kept, 1, Len(kept) - 1))
               ELSE normalizeString(Tail(pieces), Append(kept, piece))

\* posix.resolve('/', path): the path is taken from the root.
posixResolve(chars) == normalizeString(splitOnSlash(chars, <<>>, <<>>), <<>>)

\* splitPathIntoParts(path) of a path given char by char:
\* posix.resolve('/', path).split('/').filter(part => !!part)
splitCharsIntoParts(chars) ==
  SelectSeq(posixResolve(chars), LAMBDA piece : piece # <<>>)

\* ---------------------------------------------------------------- FolderNode
children(t, folder) ==
  {o \in ObjIds : t[o].state = "present" /\ t[o].parent = folder}

entry(t, folder, name) == {o \in children(t, folder) : t[o].name = name}

isEmpty(t, folder) == children(t, folder) = {}

\* hasChild(name, throwIfMissing)
hasChild(t, folder, name, throwIfMissing) ==
  IF entry(t, folder, name) = {} /\ throwIfMissing
  THEN makeFileException(excCode("notFound"), name) ELSE NoExc

\* getFolder(name): the child folder, or not-found, or not-directory.
getFolder(t, folder, name) ==
  LET found == entry(t, folder, name)
  IN IF found = {}
     THEN [exc |-> makeFileException(excCode("notFound"), name), folder |-> NoId]
     ELSE LET c == CHOOSE o \in found : TRUE
          IN IF typeOf(c) # "folder"
             THEN [exc |-> makeFileException(excCode("notDirectory"), name),
                   folder |-> NoId]
             ELSE [exc |-> NoExc, folder |-> c]

\* The storage ran out of the ids this model gives it.
OutOfIds == [type |-> "bound", code |-> "", path |-> "", flags |-> {}]

unusedIds(t, ids) == {o \in ids : t[o].state = "unused"}

\* storage.generateNewObjId(): an id never used before.
generateNewObjId(t, ids) ==
  CHOOSE o \in unusedIds(t, ids) : \A p \in unusedIds(t, ids) : o <= p

\* getFolderInThisSubTree(pathParts, create, exclusive): walks the parts
\* from a folder; a missing part is created when create is set, and fails
\* with not-found otherwise; a part that is not a folder fails with
\* not-directory; an existing leaf fails with already-exists when create and
\* exclusive are set.  made lists the entries added on the way.
RECURSIVE getFolderInThisSubTree(_, _, _, _, _)
getFolderInThisSubTree(t, folder, parts, create, exclusive) ==
  IF parts = <<>>
  THEN [exc |-> NoExc, folder |-> folder, tree |-> t, made |-> <<>>]
  ELSE
    LET name == Head(parts)
        found == entry(t, folder, name)
        fail(e) == [exc |-> e, folder |-> NoId, tree |-> t, made |-> <<>>]
    IN IF found = {}
       THEN IF ~create
            THEN fail(makeFileException(excCode("notFound"), name))
            ELSE IF unusedIds(t, FolderIds) = {} THEN fail(OutOfIds)
            ELSE
              LET id == generateNewObjId(t, FolderIds)
                  t2 == [t EXCEPT ![id] = newEntry(folder, name, id)]
                  r == getFolderInThisSubTree(t2, id, Tail(parts), create,
                                              exclusive)
              IN [r EXCEPT !.made = <<[folder |-> folder, name |-> name]>> \o @]
       ELSE
         LET c == CHOOSE o \in found : TRUE
         IN IF typeOf(c) # "folder"
            THEN fail(makeFileException(excCode("notDirectory"), name))
            ELSE IF Len(parts) = 1 /\ create /\ exclusive
                 THEN fail(makeFileException(excCode("alreadyExists"), name))
                 ELSE getFolderInThisSubTree(t, c, Tail(parts), create,
                                             exclusive)

\* moveChildTo(oldName, dstFolder, newName): oldName must exist here and
\* newName must not exist in dstFolder; the child keeps its objId and key
\* and gets its new parent and name.
moveChildTo(t, src, oldName, dst, newName) ==
  LET moved == entry(t, src, oldName)
  IN IF moved = {}
     THEN [exc |-> makeFileException(excCode("notFound"), oldName),
           tree |-> t, child |-> NoId]
     ELSE IF entry(t, dst, newName) # {}
          THEN [exc |-> makeFileException(excCode("alreadyExists"), newName),
                tree |-> t, child |-> NoId]
          ELSE LET c == CHOOSE o \in moved : TRUE
               IN [exc |-> NoExc, child |-> c,
                   tree |-> [t EXCEPT ![c] = [@ EXCEPT !.parent = dst,
                                                       !.name = newName]]]

\* The nodes under a node, the node included.
RECURSIVE subTree(_, _, _)
subTree(t, o, depth) ==
  IF depth = 0 THEN {o}
  ELSE {o} \cup UNION {subTree(t, c, depth - 1) : c \in children(t, o)}

\* removeChild(child): the entry goes from this folder, and the child with
\* everything under it is removed.
removeChild(t, folder, child) ==
  LET gone == subTree(t, child, Cardinality(ObjIds))
  IN [o \in ObjIds |->
        IF o \in gone THEN [t[o] EXCEPT !.state = "removed"] ELSE t[o]]

\* createLink(name, linkParams): a link entry under a name not yet taken;
\* the bound on link ids is a guard of the caller.
createLink(t, folder, name) ==
  IF entry(t, folder, name) # {}
  THEN [exc |-> makeFileException(excCode("alreadyExists"), name), tree |-> t]
  ELSE LET id == generateNewObjId(t, LinkIds)
       IN [exc |-> NoExc, tree |-> [t EXCEPT ![id] = newEntry(folder, name, id)]]

\* The node a path leads to from the root, or NoId.
RECURSIVE nodeAt(_, _, _)
nodeAt(t, folder, parts) ==
  IF parts = <<>> THEN folder
  ELSE LET found == entry(t, folder, Head(parts))
       IN IF found = {} THEN NoId
          ELSE nodeAt(t, CHOOSE o \in found : TRUE, Tail(parts))

\* The path of a node as a consumer of watchTree('/') names it, "." being
\* the watched root; "?" for a node that no path from the root leads to.
RECURSIVE pathOf(_, _, _)
pathOf(t, o, depth) ==
  IF o = RootId THEN "."
  ELSE IF depth = 0 \/ o = NoId \/ t[o].state # "present" THEN "?"
  ELSE LET up == pathOf(t, t[o].parent, depth - 1)
       IN IF up = "?" THEN "?" ELSE up \o "/" \o t[o].name

\* ---------------------------------------------------------------- NodeEvent
\* An event of a node as the storage delivers it: path is the name of the
\* node that emits it; the other fields are those of its type.
NoLabel == 0

event(type) ==
  [type |-> type, path |-> "", name |-> "", oldName |-> "", newName |-> "",
   entry |-> "", moveLabel |-> NoLabel]

\* NodeInFS.broadcastEvent: the event with the ids and the name of its node.
\* The field at is no part of the event: it keeps the path the node has when
\* the event occurs, for the properties to compare with.
nodeEvent(t, objId, ev) ==
  [objId |-> objId, parentObjId |-> t[objId].parent,
   event |-> [ev EXCEPT !.path = t[objId].name],
   at |-> pathOf(t, objId, Cardinality(ObjIds))]

entryAddition(t, folder, name, moveLabel) ==
  nodeEvent(t, folder, [event("entry-addition") EXCEPT !.entry = name,
                                                       !.moveLabel = moveLabel])

entryRemoval(t, folder, name, moveLabel) ==
  nodeEvent(t, folder, [event("entry-removal") EXCEPT !.name = name,
                                                      !.moveLabel = moveLabel])

entryRenaming(t, folder, oldName, newName) ==
  nodeEvent(t, folder, [event("entry-renaming") EXCEPT !.oldName = oldName,
                                                       !.newName = newName])

\* The events of the folders getFolderInThisSubTree made.
RECURSIVE madeEvents(_, _)
madeEvents(t, made) ==
  IF made = <<>> THEN <<>>
  ELSE <<entryAddition(t, Head(made).folder, Head(made).name, NoLabel)>>
       \o madeEvents(t, Tail(made))

\* ------------------------------------------------------------ ObjIdToPathMap
\* A Map keeps its keys in the order of their first insertion: a sequence of
\* entries.
mapHas(map, key) == \E i \in 1..Len(map) : map[i].key = key

mapGet(map, key) ==
  IF mapHas(map, key)
  THEN map[CHOOSE i \in 1..Len(map) : map[i].key = key].value
  ELSE "undefined"

mapSet(map, key, value) ==
  IF mapHas(map, key)
  THEN [i \in 1..Len(map) |->
          IF map[i].key = key THEN [key |-> key, value |-> value] ELSE map[i]]
  ELSE Append(map, [key |-> key, value |-> value])

mapDelete(map, key) == SelectSeq(map, LAMBDA e : e.key # key)

\* A new ObjIdToPathMap, not yet subscribed to the events of the storage.
\* fill, list and todo are the position of a fillFromTree that is under
\* way: the pairs recursiveIdAndPathList has pushed, and the listed items
\* it has still to await getFolder for.
NoIdToPath == [on |-> FALSE, map |-> <<>>, moves |-> <<>>,
               fill |-> "none", list |-> <<>>, todo |-> <<>>]

\* What a move label waits for: the new path, or the moved objId.
moveInfoOfPath(newPath) == [newPath |-> newPath, objId |-> NoId]
moveInfoOfObjId(objId) == [newPath |-> "undefined", objId |-> objId]

\* findObjIdByPath(path): the first key whose value is the path.
findObjIdByPath(map, path) ==
  IF \E i \in 1..Len(map) : map[i].value = path
  THEN map[CHOOSE i \in 1..Len(map) :
             /\ map[i].value = path
             /\ \A j \in 1..(i - 1) : map[j].value # path].key
  ELSE NoId

\* The ids in a set as a sequence, lowest first.
RECURSIVE inOrder(_)
inOrder(ids) ==
  IF ids = {} THEN <<>>
  ELSE LET low == CHOOSE o \in ids : \A p \in ids : o <= p
       IN <<low>> \o inOrder(ids \ {low})

\* recursiveIdAndPathList(folder, path): the folder, then the lists of its
\* child folders; files and links are left out.
RECURSIVE recursiveIdAndPathList(_, _, _)
RECURSIVE listOfFolders(_, _, _)
recursiveIdAndPathList(t, folder, path) ==
  <<[key |-> folder, value |-> path]>>
  \o listOfFolders(t, inOrder({c \in children(t, folder) : typeOf(c) = "folder"}),
                   path)

listOfFolders(t, folders, path) ==
  IF folders = <<>> THEN <<>>
  ELSE recursiveIdAndPathList(t, Head(folders),
                              path \o "/" \o t[Head(folders)].name)
       \o listOfFolders(t, Tail(folders), path)

RECURSIVE setAll(_, _)
setAll(map, list) ==
  IF list = <<>> THEN map
  ELSE setAll(mapSet(map, Head(list).key, Head(list).value), Tail(list))

\* fillFromTree(root)
fillFromTree(m, t, root) ==
  [m EXCEPT !.map = setAll(@, recursiveIdAndPathList(t, root, "."))]

\* A variant of getPathCorrectingTreeMap whose entry-removal always records
\* the objId, also when the new path is already pending.
getPathNotCommittingOnRemoval(m, ne) ==
  LET ev == ne.event
      path == mapGet(m.map, ne.objId)
  IN IF path # "undefined"
     THEN
       IF ev.type = "removed"
       THEN [path |-> path, map |-> mapDelete(m.map, ne.objId), moves |-> m.moves]
       ELSE IF ev.type = "entry-renaming"
       THEN LET child == findObjIdByPath(m.map, path \o "/" \o ev.oldName)
            IN [path |-> path, moves |-> m.moves,
                map |-> IF child # NoId
                        THEN mapSet(m.map, child, path \o "/" \o ev.newName)
                        ELSE m.map]
       ELSE IF ev.type = "entry-removal" /\ ev.moveLabel # NoLabel
       THEN LET child == findObjIdByPath(m.map, path \o "/" \o ev.name)
            IN IF child = NoId
               THEN [path |-> path, map |-> m.map, moves |-> m.moves]
               ELSE [path |-> path, map |-> m.map,
                     moves |-> mapSet(m.moves, ev.moveLabel,
                                      moveInfoOfObjId(child))]
       ELSE IF ev.type = "entry-addition" /\ ev.moveLabel # NoLabel
       THEN LET newPath == path \o "/" \o ev.entry
            IN IF mapHas(m.moves, ev.moveLabel)
               THEN [path |-> path,
                     map |-> mapSet(m.map, mapGet(m.moves, ev.moveLabel).objId,
                                    newPath),
                     moves |-> mapDelete(m.moves, ev.moveLabel)]
               ELSE [path |-> path, map |-> m.map,
                     moves |-> mapSet(m.moves, ev.moveLabel,
                                      moveInfoOfPath(newPath))]
       ELSE [path |-> path, map |-> m.map, moves |-> m.moves]
     ELSE
       LET parentPath == mapGet(m.map, ne.parentObjId)
       IN IF parentPath = "undefined" \/ ev.type = "removed"
          THEN [path |-> "undefined", map |-> m.map, moves |-> m.moves]
          ELSE [path |-> parentPath \o "/" \o ev.path,
                map |-> mapSet(m.map, ne.objId, parentPath \o "/" \o ev.path),
                moves |-> m.moves]

\* getPathCorrectingTreeMap(nodeEvent): the path the event is emitted with,
\* or undefined for an event that is dropped, and the map and the pending
\* moves after it.
getPathCorrectingTreeMap(m, ne) ==
  LET ev == ne.event
      path == mapGet(m.map, ne.objId)
  IN IF path # "undefined"
     THEN
       IF ev.type = "removed"
       THEN [path |-> path, map |-> mapDelete(m.map, ne.objId), moves |-> m.moves]
       ELSE IF ev.type = "entry-renaming"
       THEN LET child == findObjIdByPath(m.map, path \o "/" \o ev.oldName)
            IN [path |-> path, moves |-> m.moves,
                map |-> IF child # NoId
                        THEN mapSet(m.map, child, path \o "/" \o ev.newName)
                        ELSE m.map]
       ELSE IF ev.type = "entry-removal" /\ ev.moveLabel # NoLabel
       THEN LET child == findObjIdByPath(m.map, path \o "/" \o ev.name)
            IN IF child = NoId
               THEN [path |-> path, map |-> m.map, moves |-> m.moves]
               ELSE IF mapHas(m.moves, ev.moveLabel)
                    THEN [path |-> path,
                          map |-> mapSet(m.map, child,
                                         mapGet(m.moves, ev.moveLabel).newPath),
                          moves |-> mapDelete(m.moves, ev.moveLabel)]
                    ELSE [path |-> path, map |-> m.map,
                          moves |-> mapSet(m.moves, ev.moveLabel,
                                           moveInfoOfObjId(child))]
       ELSE IF ev.type = "entry-addition" /\ ev.moveLabel # NoLabel
       THEN LET newPath == path \o "/" \o ev.entry
            IN IF mapHas(m.moves, ev.moveLabel)
               THEN [path |-> path,
                     map |-> mapSet(m.map, mapGet(m.moves, ev.moveLabel).objId,
                                    newPath),
                     moves |-> mapDelete(m.moves, ev.moveLabel)]
               ELSE [path |-> path, map |-> m.map,
                     moves |-> mapSet(m.moves, ev.moveLabel,
                                      moveInfoOfPath(newPath))]
       ELSE [path |-> path, map |-> m.map, moves |-> m.moves]
     ELSE
       LET parentPath == mapGet(m.map, ne.parentObjId)
       IN IF parentPath = "undefined" \/ ev.type = "removed"
          THEN [path |-> "undefined", map |-> m.map, moves |-> m.moves]
          ELSE [path |-> parentPath \o "/" \o ev.path,
                map |-> mapSet(m.map, ne.objId, parentPath \o "/" \o ev.path),
                moves |-> m.moves]

\* The ObjIdToPathMap after getPathCorrectingTreeMap of an event.
afterEvent(m, ne) ==
  [m EXCEPT !.map = getPathCorrectingTreeMap(m, ne).map,
            !.moves = getPathCorrectingTreeMap(m, ne).moves]

\* ---------------------------------------------------------------- MsgPacker
\* The key bytes random.bytesSync(KEY_LENGTH) may give.
KeyBytes == {1, 2}

\* A key as bytes, as the base64 string of bytes, or what base64.open
\* makes of a value that is no base64 string.
keyBytes(k) == [enc |-> "bytes", of |-> k]
BadKey == [enc |-> "bad", of |-> 0]
RandomKeys == {keyBytes(k) : k \in KeyBytes}

base64pack(key) ==
  IF key.enc = "bytes" THEN [enc |-> "b64", of |-> key.of] ELSE BadKey

base64open(str) ==
  IF str.enc = "b64" THEN [enc |-> "bytes", of |-> str.of] ELSE BadKey

\* The ids generateObjId gives: random and not yet in allObjs.
MsgObjIds == 1..5

generateMsgObjId(used) ==
  CHOOSE id \in MsgObjIds \ used : \A other \in MsgObjIds \ used : id <= other

\* The main object of a new MsgPacker: no body, no sections, no flow
\* parameters, no attachments.
NoMain == [body |-> "none", subject |-> "none", msgCount |-> 0,
           nextCrypto |-> "none", nextSendingParams |-> "none",
           attachments |-> <<>>]

\* A MsgObj: json, file or folder. The json of the main object is this.main
\* itself (live) until a copy is made of it; nodes are the entries of a
\* folder, each with the objId and the key of the child.
jsonObj(id, key) ==
  [id |-> id, kind |-> "json", live |-> TRUE, json |-> NoMain, nodes |-> <<>>,
   key |-> key]

fileObj(id, key) ==
  [id |-> id, kind |-> "file", live |-> FALSE, json |-> NoMain,
   nodes |-> <<>>, key |-> key]

folderObj(id, nodes, key) ==
  [id |-> id, kind |-> "folder", live |-> FALSE, json |-> NoMain,
   nodes |-> nodes, key |-> key]

nodeInJSON(name, id, key) == [name |-> name, objId |-> id, key |-> key]

\* copy(obj) of json-utils: the json is what this.main holds at the time.
copyObj(main, obj) ==
  IF obj.live THEN [obj EXCEPT !.live = FALSE, !.json = main] ELSE obj

turnKeysToB64(obj) ==
  [obj EXCEPT
     !.key = base64pack(@),
     !.nodes = [i \in 1..Len(@) |-> [@[i] EXCEPT !.key = base64pack(@)]]]

\* turnKeyStingsToBytes(obj): the key of the object is opened; each node
\* gets base64.open of obj.key, which by then holds the opened bytes.
turnKeyStingsToBytes(obj) ==
  LET opened == base64open(obj.key)
  IN [obj EXCEPT
        !.key = opened,
        !.nodes = [i \in 1..Len(@) |-> [@[i] EXCEPT !.key = base64open(opened)]]]

idsOf(map) == {map[i].key : i \in 1..Len(map)}

NoPack == [packed |-> FALSE, mainObjId |-> 0, objIds |-> <<>>, pid |-> "none",
           objs |-> <<>>]

NoLast == [op |-> "none", threw |-> FALSE, json |-> NoMain, key |-> BadKey]

\* No MsgPacker yet.
NoPacker == [made |-> FALSE, meta |-> "none", main |-> NoMain, mainObjId |-> 0,
             allObjs |-> <<>>, readyPack |-> NoPack, hasAttachments |-> FALSE,
             wasBodySet |-> FALSE, last |-> NoLast]

\* new MsgPacker(segSizeIn256bs): the main object is added under a new id
\* with a new key.
newMsgPacker(used, key) ==
  LET id == generateMsgObjId(used)
  IN [NoPacker EXCEPT !.made = TRUE, !.mainObjId = id,
                      !.allObjs = mapSet(<<>>, id, jsonObj(id, key))]

\* allObjs.set(id, obj) for each of the entries, in their order.
RECURSIVE setAllObjs(_, _)
setAllObjs(map, entries) ==
  IF entries = <<>> THEN map
  ELSE setAllObjs(mapSet(map, Head(entries).key, Head(entries).value),
                  Tail(entries))

\* MsgPacker.fromPack(p, segSizeIn256bs, att): a new packer takes the pack;
\* a copy of every object is set with its keys turned to bytes, and then
\* every id is set to the object of the pack itself.
packerFromPack(p, key) ==
  LET made == newMsgPacker(idsOf(p.objs), key)
      copies == [i \in 1..Len(p.objs) |->
                   [key |-> p.objs[i].value.id,
                    value |-> turnKeyStingsToBytes(p.objs[i].value)]]
  IN [made EXCEPT
        !.readyPack = p,
        !.mainObjId = p.objIds[1],
        !.allObjs = setAllObjs(setAllObjs(@, copies), p.objs)]

\* The ids other than the main one, sorted.
sortedOthers(map, mainObjId) == inOrder(idsOf(map) \ {mainObjId})

\* What pack() makes of the packer: meta with the ids, main first, and a
\* copy of every object with its keys as base64 strings.
packOf(pk) ==
  [packed |-> TRUE, mainObjId |-> pk.mainObjId,
   objIds |-> <<pk.mainObjId>> \o sortedOthers(pk.allObjs, pk.mainObjId),
   pid |-> pk.meta,
   objs |-> [i \in 1..Len(pk.allObjs) |->
               [key |-> pk.allObjs[i].key,
                value |-> turnKeysToB64(copyObj(pk.main, pk.allObjs[i].value))]]]

\* ------------------------------------------------------------- addMsg (IPC)
\* Value<T> of the IPC messages: toOptVal wraps a value that is defined,
\* valOfOpt unwraps it.
NoOpt == [set |-> FALSE, value |-> "undefined"]

toOptVal(v) == IF v = "undefined" THEN NoOpt ELSE [set |-> TRUE, value |-> v]

valOfOpt(opt) == IF opt.set THEN opt.value ELSE "undefined"

\* toOptJson / valOfOptJson: the value goes as its JSON text.
toOptJson(json) ==
  IF json = "undefined" THEN NoOpt
  ELSE [set |-> TRUE, value |-> "text of " \o json]

valOfOptJson(opt) ==
  IF ~opt.set THEN "undefined"
  ELSE CHOOSE json \in {"undefined", "json"} : "text of " \o json = opt.value

\* The OutgoingMessage values a caller gives to addMsg.
OutgoingMessages ==
  [msgType : {"mail"},
   msgId : {"undefined", "id"},
   subject : {"undefined", "subject"},
   plainTxtBody : {"undefined", "plain"},
   htmlTxtBody : {"undefined", "html"},
   jsonBody : {"undefined", "json"},
   recipients : {<<>>, <<"bob">>},
   carbonCopy : {<<>>, <<"carol">>},
   attachments : {"undefined", "empty", "files"}]

\* addMsg.packMsg(m, caller)
packMsg(m) ==
  [msgType |-> m.msgType,
   htmlTxtBody |-> toOptVal(m.htmlTxtBody),
   jsonBody |-> toOptJson(m.jsonBody),
   msgId |-> toOptVal(m.msgType),
   plainTxtBody |-> toOptVal(m.plainTxtBody),
   recipients |-> m.recipients,
   carbonCopy |-> m.carbonCopy,
   subject |-> toOptVal(m.subject),
   attachments |-> IF m.attachments = "files" THEN "files" ELSE "undefined"]

\* addMsg.unpackMsg(ipcMsg, expServices)
unpackMsg(ipcMsg) ==
  [msgType |-> ipcMsg.msgType,
   htmlTxtBody |-> valOfOpt(ipcMsg.htmlTxtBody),
   jsonBody |-> valOfOptJson(ipcMsg.jsonBody),
   msgId |-> valOfOpt(ipcMsg.msgId),
   plainTxtBody |-> valOfOpt(ipcMsg.plainTxtBody),
   recipients |-> ipcMsg.recipients,
   carbonCopy |-> ipcMsg.carbonCopy,
   subject |-> valOfOpt(ipcMsg.subject),
   attachments |-> IF ipcMsg.attachments = "files" THEN "files" ELSE "undefined"]

\* ------------------------------------------------------------- RemoteEvents
\* The call of remoteChange or remoteRemoval that mergeMap makes for an
\* event, and the await it is at.
NoHandler == [kind |-> "none", pc |-> "none"]

\* RemoteEvents before startAbsorbingRemoteEvents: no subscription, no
\* event taken, nothing passed to a node and nothing logged.
NoRemote == [sub |-> "none", handlers |-> <<>>, processed |-> 0, logged |-> 0]

\* ------------------------------------------------------------------- state
VARIABLES
  storageType,   \* Storage.type of the mounted storage
  filePresent,   \* the root folder lists FileName
  fileNode,      \* FileNode: version, fileSize, attrs, xattrs
  storeObj,      \* the file's object in the storage
  changeLock,    \* the node's change lock: holder and FIFO queue of doChange
  writers,       \* per caller: position in writeBytes / getByteSink / sink.done
  readers,       \* per caller: position in readBytes
  rootNode,      \* V.rootNode is defined
  store,         \* XspFS.store is defined
  fsObs,         \* XspFS.fsObs, the Broadcast of 'close'
  watch,         \* per observer: its watchFile subscription
  returned,      \* write calls made, and the highest versions they returned
  tree,          \* per objId: the node's state, parent folder and name
  folderLocks,   \* per folder: its change lock
  treeOps,       \* per caller: position in move / deleteFolder / link
  treeCalls,     \* tree operations called
  nodeEvents,    \* events of the storage not yet taken by watchTree
  idToPath,      \* the ObjIdToPathMap of the watchTree subscription
  received,      \* events the observer of watchTree received
  probe,         \* a call of a pure function: its input and what it returned
  packer,        \* the MsgPacker of a message: its fields, and its last call
  remote         \* RemoteEvents: the subscription, and the events it handles

vars == <<storageType, filePresent, fileNode, storeObj, changeLock, writers,
          readers, rootNode, store, fsObs, watch, returned, tree, folderLocks,
          treeOps, treeCalls, nodeEvents, idToPath, received, probe, packer,
          remote>>

fsVars == <<rootNode, store, fsObs>>

treeVars == <<tree, folderLocks, treeOps, treeCalls, nodeEvents, idToPath,
              received, probe>>

fileVars == <<storageType, filePresent, fileNode, storeObj, changeLock, writers,
              readers, rootNode, store, fsObs, watch, returned>>

msgVars == <<packer, remote>>

\* ------------------------------------------------------------- CommonAttrs
makeForTimeNow(time) == [ctime |-> time, mtime |-> time]

\* ------------------------------------------------ NodeInFS (node-in-fs.ts)
\* getParamsForUpdate: the next version, attrs stamped with the current
\* time; the node itself is left as it is.
getParamsForUpdate(node, time) ==
  [attrs |-> [node.attrs EXCEPT !.mtime = time],
   xattrs |-> node.xattrs,
   newVersion |-> node.version + 1]

\* setUpdatedParams: commits version, attrs and xattrs into the node.
setUpdatedParams(node, version, attrs, xattrs) ==
  [node EXCEPT !.version = version, !.attrs = attrs, !.xattrs = xattrs]

\* doChange: the change lock.  Callers queue in call order; the head of the
\* queue runs when the lock is free.
lockEnqueue(lock, w) == [lock EXCEPT !.queue = Append(@, w)]

lockCanStart(lock, w) ==
  /\ lock.holder = NoWriter
  /\ lock.queue # <<>>
  /\ Head(lock.queue) = w

lockAcquire(lock, w) == [holder |-> w, queue |-> Tail(lock.queue)]

lockRelease(lock) == [lock EXCEPT !.holder = NoWriter]

\* ----------------------------------------------------- FileNode (file-node.ts)
\* A setUpdatedState that takes size, attrs and xattrs and leaves the version.
setUpdatedStateKeepingVersion(node, version, fileAttrs) ==
  [setUpdatedParams(node, node.version, fileAttrs.attrs, fileAttrs.xattrs)
     EXCEPT !.fileSize = fileAttrs.size]

\* A setUpdatedState that takes version, attrs and xattrs and leaves the size.
setUpdatedStateKeepingSize(node, version, fileAttrs) ==
  setUpdatedParams(node, version, fileAttrs.attrs, fileAttrs.xattrs)

\* setUpdatedState(version, fileAttrs)
setUpdatedState(node, version, fileAttrs) ==
  [setUpdatedParams(node, version, fileAttrs.attrs, fileAttrs.xattrs)
     EXCEPT !.fileSize = fileAttrs.size]

\* fileAttrsFrom(payload): attrs, size and xattrs carried in the object.
fileAttrsFrom(obj) == [attrs |-> obj.attrs, size |-> obj.size, xattrs |-> obj.xattrs]

NoBytes == [defined |-> FALSE, data |-> <<>>]
SomeBytes(data) == [defined |-> TRUE, data |-> data]

\* payload.readSomeContentBytes(start, end): bytes start..end-1 (0-based).
readSomeContentBytes(content, start, end) == SubSeq(content, start + 1, end)

\* A FilePersistance.readBytes whose default range ends where it starts.
readBytesOfPayloadEndAtStart(obj, start, end) ==
  IF start # Undefined /\ start < 0 THEN [threw |-> TRUE, bytes |-> NoBytes]
  ELSE IF end # Undefined /\ end < 0 THEN [threw |-> TRUE, bytes |-> NoBytes]
  ELSE
    LET size == obj.size
        s == IF start = Undefined THEN 0 ELSE start
        e0 == IF start = Undefined THEN 0 ELSE end
    IN IF start # Undefined /\ start >= size
       THEN [threw |-> FALSE, bytes |-> NoBytes]
       ELSE IF e0 # Undefined
            THEN LET e == Min(size, e0)
                 IN IF e <= s
                    THEN [threw |-> FALSE, bytes |-> NoBytes]
                    ELSE [threw |-> FALSE,
                          bytes |-> SomeBytes(readSomeContentBytes(obj.content, s, e))]
            ELSE [threw |-> FALSE,
                  bytes |-> SomeBytes(readSomeContentBytes(obj.content, s, size))]

\* A variant of readBytes that takes a start at the very end of the content
\* for a start inside it.
readBytesOfPayloadPastSize(obj, start, end) ==
  IF start # Undefined /\ start < 0 THEN [threw |-> TRUE, bytes |-> NoBytes]
  ELSE IF end # Undefined /\ end < 0 THEN [threw |-> TRUE, bytes |-> NoBytes]
  ELSE
    LET size == obj.size
        s == IF start = Undefined THEN 0 ELSE start
        e0 == IF start = Undefined THEN size ELSE end
    IN IF start # Undefined /\ start > size
       THEN [threw |-> FALSE, bytes |-> NoBytes]
       ELSE IF e0 # Undefined
            THEN LET e == Min(size, e0)
                 IN IF e <= s
                    THEN [threw |-> FALSE, bytes |-> NoBytes]
                    ELSE [threw |-> FALSE,
                          bytes |-> SomeBytes(readSomeContentBytes(obj.content, s, e))]
            ELSE [threw |-> FALSE,
                  bytes |-> SomeBytes(readSomeContentBytes(obj.content, s, size))]

\* FilePersistance.readBytes.  start and end are Undefined or numbers; the
\* result is the bytes read, or no bytes at all, or a thrown Error.
readBytesOfPayload(obj, start, end) ==
  IF start # Undefined /\ start < 0 THEN [threw |-> TRUE, bytes |-> NoBytes]
  ELSE IF end # Undefined /\ end < 0 THEN [threw |-> TRUE, bytes |-> NoBytes]
  ELSE
    LET size == obj.size
        s == IF start = Undefined THEN 0 ELSE start
        e0 == IF start = Undefined THEN size ELSE end
    IN IF start # Undefined /\ start >= size
       THEN [threw |-> FALSE, bytes |-> NoBytes]
       ELSE IF e0 # Undefined
            THEN LET e == Min(size, e0)
                 IN IF e <= s
                    THEN [threw |-> FALSE, bytes |-> NoBytes]
                    ELSE [threw |-> FALSE,
                          bytes |-> SomeBytes(readSomeContentBytes(obj.content, s, e))]
            ELSE [threw |-> FALSE,
                  bytes |-> SomeBytes(readSomeContentBytes(obj.content, s, size))]

\* A test that takes every storage for a versioned one.
VersionedAlways == TRUE

\* The test of FileNode.readBytes and readSrc for a versioned storage.
Versioned == storageType \in {"synced", "local"}

\* -------------------------------------------------------------------- Init
\* An object of the storage: its version, its payload (content, size, attrs,
\* xattrs), and the bytes writeBytes was given for it (none for a version
\* that was streamed).
NoObj == [version |-> 0, content |-> <<>>, size |-> 0,
          attrs |-> makeForTimeNow(0), xattrs |-> {}, given |-> NoBytes]

\* FolderNode.createFile: a new node has version 0 and the attrs of the time
\* of creation.
makeForNew(time) ==
  [version |-> 0, fileSize |-> 0, attrs |-> makeForTimeNow(time), xattrs |-> {}]

\* The arguments of writeSink, kept until its change starts.
NoCall == [truncate |-> FALSE, currentVersion |-> Undefined]

IdleWriter ==
  [caller |-> "idle", task |-> "none", kind |-> "none", call |-> NoCall,
   bytes |-> <<>>, newVersion |-> 0, attrs |-> makeForTimeNow(0), xattrs |-> {},
   base |-> Undefined, sink |-> "none", sinkContent |-> <<>>,
   newSize |-> Undefined, version |-> 0, doneErr |-> FALSE, fresh |-> FALSE,
   exc |-> NoExc, result |-> "none"]

IdleReader ==
  [pc |-> "idle", objSrc |-> NoObj, refresh |-> FALSE, bytes |-> NoBytes,
   version |-> Undefined, exc |-> NoExc]

NoWatch == [state |-> "none", afterClose |-> FALSE, got |-> <<>>, exc |-> NoExc]

\* The callers of the tree operations, and what a call keeps between its steps.
TreeCallers == {"m1", "m2"}

IdleOp ==
  [pc |-> "idle", op |-> "none", initPath |-> "", newPath |-> "",
   src |-> NoId, dst |-> NoId, initFName |-> "", dstFName |-> "",
   removeContent |-> FALSE, target |-> "none", moved |-> NoId,
   label |-> NoLabel, exc |-> NoExc]

NoProbe == [op |-> "none", start |-> Undefined, end |-> Undefined,
            threw |-> FALSE, bytes |-> NoBytes, version |-> Undefined]

TreeStart ==
  /\ tree = InitialTree
  /\ folderLocks = [f \in FolderIds |-> [holder |-> NoWriter, queue |-> <<>>]]
  /\ treeOps = [m \in TreeCallers |-> IdleOp]
  /\ treeCalls = 0
  /\ nodeEvents = <<>>
  /\ idToPath = NoIdToPath
  /\ received = <<>>
  /\ probe = NoProbe

Start ==
  /\ filePresent = FALSE
  /\ fileNode = makeForNew(0)
  /\ storeObj = NoObj
  /\ changeLock = [holder |-> NoWriter, queue |-> <<>>]
  /\ writers = [w \in Writers |-> IdleWriter]
  /\ readers = [r \in Readers |-> IdleReader]
  /\ rootNode = TRUE
  /\ store = TRUE
  /\ fsObs = [emitted |-> <<>>, doneCalls |-> 0]
  /\ watch = [o \in Watchers |-> NoWatch]
  /\ returned = [calls |-> 0, any |-> 0, ok |-> 0]

MsgStart ==
  /\ packer = NoPacker
  /\ remote = NoRemote

Init == storageType \in StorageTypes /\ Start /\ TreeStart /\ MsgStart

InitLocal == storageType = "local" /\ Start /\ TreeStart /\ MsgStart

\* ---------------------------------------------------------- helper updates
SetWriter(w, rec) == writers' = [writers EXCEPT ![w] = rec]
SetReader(r, rec) == readers' = [readers EXCEPT ![r] = rec]

Closed == ~rootNode

\* Date.now() on a logical clock: the count of versions the node has seen.
now == fileNode.version + 1

\* V.getRootIfNotClosed(excPath): the exception thrown on a closed V.
getRootIfNotClosed(excPath) ==
  IF ~rootNode THEN makeFileException(excCode("storageClosed"), excPath) ELSE NoExc

\* FolderNode.getFile(name, nullOnMissing): the file, or null when allowed,
\* else not-found.
getFile(present, name, nullOnMissing) ==
  IF present THEN [exc |-> NoExc, file |-> TRUE]
  ELSE IF nullOnMissing THEN [exc |-> NoExc, file |-> FALSE]
  ELSE [exc |-> makeFileException(excCode("notFound"), name), file |-> FALSE]

\* V.getOrCreateFile(path, flags): the exception thrown, or none, and
\* whether the file gets created.
getOrCreateFile(path, flags, present) ==
  LET closedExc == getRootIfNotClosed(path)
      got == getFile(present, FileName, flags.create)
  IN IF closedExc # NoExc THEN [exc |-> closedExc, creates |-> FALSE]
     ELSE IF got.exc # NoExc THEN [exc |-> setExcPath(path, got.exc), creates |-> FALSE]
     ELSE IF got.file
          THEN IF flags.exclusive
               THEN [exc |-> makeFileException(excCode("alreadyExists"), path),
                     creates |-> FALSE]
               ELSE [exc |-> NoExc, creates |-> FALSE]
          ELSE [exc |-> NoExc, creates |-> TRUE]

\* The flags callers pass; {} is the flags object of the read operations.
NoFlags == [create |-> FALSE, exclusive |-> FALSE, truncate |-> FALSE,
            currentVersion |-> Undefined]

WriteFlags ==
  [create : BOOLEAN, exclusive : BOOLEAN, truncate : {TRUE},
   currentVersion : {Undefined}]

SinkFlags ==
  [create : BOOLEAN, exclusive : BOOLEAN, truncate : BOOLEAN,
   currentVersion : {Undefined} \cup 0..MaxCurrentVersion]

\* Broadcast and takeUntil: a subscription ends when the notifier emits
\* 'close'; a notifier that only completes ends nothing.
getCloseEvent(obs) == {i \in DOMAIN obs.emitted : obs.emitted[i] = "close"}

takeUntil(sub, obs) ==
  IF sub.state = "subscribed" /\ getCloseEvent(obs) # {}
  THEN [sub EXCEPT !.state = "completed"] ELSE sub

\* broadcastEvent: every live subscription's observer gets the event.
broadcastEvent(subs, newVersion) ==
  [o \in DOMAIN subs |->
     IF subs[o].state = "subscribed"
     THEN [subs[o] EXCEPT !.afterClose = @ \/ Closed,
                          !.got = Append(@, newVersion)]
     ELSE subs[o]]

\* ------------------------------------------------------- V: write operations
CallOf(flags) ==
  [truncate |-> flags.truncate, currentVersion |-> flags.currentVersion]

\* A call that returned or threw: its outcome, what it threw, and the
\* version it returned.
Returned(me, result, exc) ==
  [IdleWriter EXCEPT !.caller = "returned", !.version = me.version,
                     !.result = result, !.exc = exc]

CanCall(w) ==
  /\ writers[w].caller \in {"idle", "returned"}
  /\ returned.calls < MaxOps

\* V.writeBytes(path, bytes, flags): getOrCreateFile, then FileNode.save,
\* which queues its change on the node's lock.
writeBytes(w, bytes, flags) ==
  LET r == getOrCreateFile(FilePath, flags, filePresent)
  IN /\ CanCall(w)
     /\ returned' = [returned EXCEPT !.calls = @ + 1]
     /\ IF r.exc # NoExc
        THEN /\ SetWriter(w, Returned(IdleWriter, "threw", r.exc))
             /\ UNCHANGED <<filePresent, fileNode, changeLock>>
        ELSE /\ filePresent' = TRUE
             /\ fileNode' = IF r.creates THEN makeForNew(0) ELSE fileNode
             /\ changeLock' = lockEnqueue(changeLock, w)
             /\ SetWriter(w, [IdleWriter EXCEPT !.kind = "save", !.caller = "awaitSave",
                                                !.task = "queued", !.bytes = bytes])
     /\ UNCHANGED <<msgVars, treeVars, storageType, storeObj, readers, fsVars, watch>>

\* V.getByteSink(path, flags): getOrCreateFile, then FileNode.writeSink up to
\* its Promise.race: the change is queued on the node's lock.
getByteSink(w, flags) ==
  LET r == getOrCreateFile(FilePath, flags, filePresent)
  IN /\ CanCall(w)
     /\ returned' = [returned EXCEPT !.calls = @ + 1]
     /\ IF r.exc # NoExc
        THEN /\ SetWriter(w, Returned(IdleWriter, "threw", r.exc))
             /\ UNCHANGED <<filePresent, fileNode, changeLock>>
        ELSE /\ filePresent' = TRUE
             /\ fileNode' = IF r.creates THEN makeForNew(0) ELSE fileNode
             /\ changeLock' = lockEnqueue(changeLock, w)
             /\ SetWriter(w, [IdleWriter EXCEPT !.kind = "sink", !.caller = "awaitRace",
                                                !.task = "queued", !.call = CallOf(flags)])
     /\ UNCHANGED <<msgVars, treeVars, storageType, storeObj, readers, fsVars, watch>>

\* ----------------------------------------------- FileNode: the change of a write
\* A check of currentVersion that fails only a version the node has not
\* reached.
versionMismatchOnlyAbove(node, currentVersion) ==
  currentVersion # Undefined /\ node.version < currentVersion

\* startMakingSinkInsideChange, first statement: a currentVersion that is a
\* number and differs from the live version fails the write.
versionMismatch(node, currentVersion) ==
  currentVersion # Undefined /\ node.version # currentVersion

\* startMakingSinkInsideChange: the base of the new version; none when
\* truncating or when nothing was saved yet.
needsBase(node, truncate) == ~(truncate \/ node.version = 0)

\* doChange starts the queued change, which runs up to its call of
\* storage.saveObj.
\* writeSink: startMakingSinkInsideChange checks currentVersion, takes the
\* parameters of the update, gets the base object and the sink with its
\* encrypted stream; version is set and deferredSink resolved.
\* save: takes the parameters of the update and encrypts the bytes.
changeStart(w) ==
  LET me == writers[w]
      params == getParamsForUpdate(fileNode, now)
      withBase == me.kind = "sink" /\ needsBase(fileNode, me.call.truncate)
  IN /\ me.task = "queued"
     /\ lockCanStart(changeLock, w)
     /\ IF me.kind = "sink" /\ versionMismatch(fileNode, me.call.currentVersion)
        THEN /\ changeLock' = lockRelease(lockAcquire(changeLock, w))
             /\ SetWriter(w, [me EXCEPT !.task = "rejected", !.call = NoCall,
                                        !.exc = makeVersionMismatchExc(FileName)])
        ELSE /\ changeLock' = lockAcquire(changeLock, w)
             /\ SetWriter(w, [me EXCEPT
                  !.task = "saveObj",
                  !.call = NoCall,
                  !.newVersion = params.newVersion,
                  !.attrs = params.attrs,
                  !.xattrs = params.xattrs,
                  !.base = IF withBase THEN storeObj.version ELSE Undefined,
                  !.sinkContent = IF withBase THEN storeObj.content ELSE <<>>,
                  !.sink = IF me.kind = "sink" THEN "open" ELSE "none",
                  !.version = IF me.kind = "sink" THEN params.newVersion ELSE 0])
     /\ UNCHANGED <<msgVars, treeVars, storageType, filePresent, fileNode, storeObj, readers, fsVars,
                    watch, returned>>

\* A writeSink whose change ends when the sink is handed out.
sinkHandoutEndingChange(w) ==
  LET me == writers[w]
  IN /\ me.caller = "awaitRace"
     /\ me.task = "saveObj"
     /\ returned' = [returned EXCEPT !.any = Max(@, me.version)]
     /\ changeLock' = lockRelease(changeLock)
     /\ SetWriter(w, [me EXCEPT !.caller = "sinkOpen",
                                !.fresh = me.version > returned.any])
     /\ UNCHANGED <<msgVars, treeVars, storageType, filePresent, fileNode, storeObj,
                    readers, fsVars, watch>>

\* writeSink: the race is won by the sink; done is wrapped and the sink
\* returned with the version.  fresh: no earlier call returned this version
\* or a higher one.
sinkHandout(w) ==
  LET me == writers[w]
  IN /\ me.caller = "awaitRace"
     /\ me.task = "saveObj"
     /\ returned' = [returned EXCEPT !.any = Max(@, me.version)]
     /\ SetWriter(w, [me EXCEPT !.caller = "sinkOpen",
                                !.fresh = me.version > returned.any])
     /\ UNCHANGED <<msgVars, treeVars, storageType, filePresent, fileNode, storeObj, changeLock,
                    readers, fsVars, watch>>

\* writeSink: the race is won by the rejected completion.
writeSinkThrows(w) ==
  LET me == writers[w]
  IN /\ me.caller = "awaitRace"
     /\ me.task = "rejected"
     /\ SetWriter(w, Returned(IdleWriter, "threw", me.exc))
     /\ UNCHANGED <<msgVars, treeVars, storageType, filePresent, fileNode, storeObj, changeLock,
                    readers, fsVars, watch, returned>>

\* The caller writes a byte into the sink.
sinkWrite(w, b) ==
  LET me == writers[w]
  IN /\ me.caller = "sinkOpen"
     /\ me.sink = "open"
     /\ Len(me.sinkContent) < MaxLen
     /\ SetWriter(w, [me EXCEPT !.sinkContent = Append(@, b)])
     /\ UNCHANGED <<msgVars, treeVars, storageType, filePresent, fileNode, storeObj, changeLock,
                    readers, fsVars, watch, returned>>

\* A wrapped sink.done(err) that resolves newSize only when called without
\* error.
sinkDoneLeavingSize(w, err) ==
  LET me == writers[w]
  IN /\ me.caller = "sinkOpen"
     /\ SetWriter(w, [me EXCEPT
          !.caller = "inDone",
          !.doneErr = err,
          !.newSize = IF err THEN Undefined ELSE Len(me.sinkContent),
          !.sink = IF me.sink = "open"
                   THEN (IF err THEN "cancelled" ELSE "completed") ELSE @])
     /\ UNCHANGED <<msgVars, treeVars, storageType, filePresent, fileNode, storeObj, changeLock,
                    readers, fsVars, watch, returned>>

\* The wrapped sink.done(err), up to its await of completion.
\* With err: newSize resolves to 0 and the original done cancels the sink.
\* Without: newSize resolves to the sink's size and the original done
\* completes the sink.
sinkDone(w, err) ==
  LET me == writers[w]
  IN /\ me.caller = "sinkOpen"
     /\ SetWriter(w, [me EXCEPT
          !.caller = "inDone",
          !.doneErr = err,
          !.newSize = IF err THEN 0 ELSE Len(me.sinkContent),
          !.sink = IF me.sink = "open"
                   THEN (IF err THEN "cancelled" ELSE "completed") ELSE @])
     /\ UNCHANGED <<msgVars, treeVars, storageType, filePresent, fileNode, storeObj, changeLock,
                    readers, fsVars, watch, returned>>

\* Storage.saveObj resolves: the new version of the object is in the
\* storage.  A storage takes only a version above the one it holds.  The
\* stream of a sink ends when the sink is done; a storage may complete a
\* save whose sink was cancelled by the caller.
storeSaves(w) ==
  LET me == writers[w]
      content == IF me.kind = "save" THEN me.bytes ELSE me.sinkContent
  IN /\ me.task = "saveObj"
     /\ me.newVersion > storeObj.version
     /\ me.kind = "save" \/ me.sink \in {"completed", "cancelled"}
     /\ storeObj' = [version |-> me.newVersion, content |-> content,
                     size |-> Len(content), attrs |-> me.attrs, xattrs |-> me.xattrs,
                     given |-> IF me.kind = "save" THEN SomeBytes(me.bytes) ELSE NoBytes]
     /\ SetWriter(w, [me EXCEPT !.task = "awaitSize"])
     /\ UNCHANGED <<msgVars, treeVars, storageType, filePresent, fileNode, changeLock, readers,
                    fsVars, watch, returned>>

\* Storage.saveObj rejects: the change fails and the lock is released; once
\* writeSink has returned, completion.catch(originalDone) cancels the sink.
storeFails(w) ==
  LET me == writers[w]
  IN /\ me.task = "saveObj"
     /\ changeLock' = lockRelease(changeLock)
     /\ SetWriter(w, [me EXCEPT
          !.task = "rejected",
          !.exc = PlainError("saveObj failed"),
          !.sink = IF me.caller \in {"sinkOpen", "inDone"} /\ me.sink = "open"
                   THEN "cancelled" ELSE @])
     /\ UNCHANGED <<msgVars, treeVars, storageType, filePresent, fileNode, storeObj, readers,
                    fsVars, watch, returned>>

\* savingObjInsideChange after saveObj: with the new size known,
\* setUpdatedState commits the version and the file-change event is
\* broadcast; the change ends and the lock is released.  The change of save
\* resolves with this.version; a sink that was done without error has
\* made its write.
commit(w) ==
  LET me == writers[w]
      size == IF me.kind = "save" THEN Len(me.bytes) ELSE me.newSize
  IN /\ me.task = "awaitSize"
     /\ me.kind = "save" \/ me.newSize # Undefined
     /\ fileNode' = setUpdatedState(fileNode, me.newVersion,
                       [attrs |-> me.attrs, size |-> size, xattrs |-> me.xattrs])
     /\ watch' = broadcastEvent(watch, me.newVersion)
     /\ changeLock' = lockRelease(changeLock)
     /\ returned' = IF me.kind = "save"
                    THEN [returned EXCEPT !.any = Max(@, fileNode'.version),
                                          !.ok = Max(@, fileNode'.version)]
                    ELSE IF ~me.doneErr
                    THEN [returned EXCEPT !.ok = Max(@, me.version)]
                    ELSE returned
     /\ SetWriter(w, [me EXCEPT !.task = "committed",
                                !.version = IF me.kind = "save"
                                            THEN fileNode'.version ELSE @])
     /\ UNCHANGED <<msgVars, treeVars, storageType, filePresent, storeObj, readers, fsVars>>

\* save returns the version, or throws what failed the change.
saveReturns(w) ==
  LET me == writers[w]
  IN /\ me.caller = "awaitSave"
     /\ me.task \in {"committed", "rejected"}
     /\ IF me.task = "committed"
        THEN SetWriter(w, Returned(me, "ok", NoExc))
        ELSE SetWriter(w, Returned(me, "threw", me.exc))
     /\ UNCHANGED <<msgVars, treeVars, storageType, filePresent, fileNode, storeObj, changeLock,
                    readers, fsVars, watch, returned>>

\* A wrapped sink.done that swallows the failure of the change also when
\* called without error.
doneReturnsSwallowing(w) ==
  LET me == writers[w]
  IN /\ me.caller = "inDone"
     /\ me.task \in {"committed", "rejected"}
     /\ IF me.doneErr
        THEN SetWriter(w, Returned(me, "abandoned", NoExc))
        ELSE SetWriter(w, Returned(me, "ok", NoExc))
     /\ UNCHANGED <<msgVars, treeVars, storageType, filePresent, fileNode, storeObj, changeLock,
                    readers, fsVars, watch, returned>>

\* The wrapped sink.done returns: done(err) swallows the failure of the
\* change, done() resolves with the change or rejects with its failure.
doneReturns(w) ==
  LET me == writers[w]
  IN /\ me.caller = "inDone"
     /\ me.task \in {"committed", "rejected"}
     /\ IF me.doneErr
        THEN SetWriter(w, Returned(me, "abandoned", NoExc))
        ELSE IF me.task = "committed"
        THEN SetWriter(w, Returned(me, "ok", NoExc))
        ELSE SetWriter(w, Returned(me, "threw", me.exc))
     /\ UNCHANGED <<msgVars, treeVars, storageType, filePresent, fileNode, storeObj, changeLock,
                    readers, fsVars, watch, returned>>

\* --------------------------------------------------------- V: read operation
\* V.readBytes(path): getOrCreateFile(path, {}), then FileNode.readBytes up
\* to its await of storage.getObj.
readBytes(r) ==
  LET got == getOrCreateFile(FilePath, NoFlags, filePresent)
  IN /\ readers[r].pc \in {"idle", "returned"}
     /\ IF got.exc # NoExc
        THEN SetReader(r, [IdleReader EXCEPT !.pc = "returned", !.exc = got.exc])
        ELSE SetReader(r, [IdleReader EXCEPT !.pc = "getObj"])
     /\ UNCHANGED <<msgVars, treeVars, storageType, filePresent, fileNode, storeObj, changeLock,
                    writers, fsVars, watch, returned>>

\* storage.getObj resolves with the object now in the storage, or rejects
\* when the object was never saved.  On a versioned storage the versions of
\* node and object are compared here.
readGetObj(r) ==
  LET me == readers[r]
  IN /\ me.pc = "getObj"
     /\ IF storeObj.version = 0
        THEN SetReader(r, [IdleReader EXCEPT !.pc = "returned",
                                             !.exc = PlainError("no object")])
        ELSE SetReader(r, [me EXCEPT
               !.pc = "decrypt",
               !.objSrc = storeObj,
               !.refresh = Versioned /\ fileNode.version < storeObj.version])
     /\ UNCHANGED <<msgVars, treeVars, storageType, filePresent, fileNode, storeObj, changeLock,
                    writers, fsVars, watch, returned>>

\* crypto.readBytes resolves; a reader that saw a newer object sets the
\* node's state from it; bytes and version are returned.
readReturns(r) ==
  LET me == readers[r]
      res == readBytesOfPayload(me.objSrc, Undefined, Undefined)
  IN /\ me.pc = "decrypt"
     /\ SetReader(r, [IdleReader EXCEPT
          !.pc = "returned",
          !.bytes = res.bytes,
          !.version = IF Versioned THEN me.objSrc.version ELSE Undefined])
     /\ fileNode' = IF me.refresh
                    THEN setUpdatedState(fileNode, me.objSrc.version,
                                         fileAttrsFrom(me.objSrc))
                    ELSE fileNode
     /\ UNCHANGED <<msgVars, treeVars, storageType, filePresent, storeObj, changeLock, writers,
                    fsVars, watch, returned>>

\* ------------------------------------------------------ XspFS: close, watch
\* XspFS.close: V drops its root, the store reference is dropped, and the
\* broadcast is completed.
close ==
  /\ fsObs.doneCalls < MaxCloses
  /\ rootNode' = FALSE
  /\ store' = FALSE
  /\ fsObs' = [fsObs EXCEPT !.doneCalls = @ + 1]
  /\ watch' = [o \in Watchers |-> takeUntil(watch[o], fsObs')]
  /\ UNCHANGED <<msgVars, treeVars, storageType, filePresent, fileNode, storeObj, changeLock,
                 writers, readers, returned>>

\* XspFS.watchFile(path, observer): throws on a closed V; else subscribes
\* the observer to the events of the file, or fails it when the file is
\* missing.
watchFile(o) ==
  LET closedExc == getRootIfNotClosed(FilePath)
      got == getFile(filePresent, FileName, FALSE)
  IN /\ watch[o].state # "subscribed"
     /\ watch' = [watch EXCEPT ![o] =
          IF closedExc # NoExc THEN [NoWatch EXCEPT !.state = "threw", !.exc = closedExc]
          ELSE IF got.exc # NoExc THEN [NoWatch EXCEPT !.state = "errored", !.exc = got.exc]
          ELSE takeUntil([NoWatch EXCEPT !.state = "subscribed"], fsObs)]
     /\ UNCHANGED <<msgVars, treeVars, storageType, filePresent, fileNode, storeObj, changeLock,
                    writers, readers, fsVars, returned>>

\* The function watchFile returned: unsubscribes.
detach(o) ==
  /\ watch[o].state = "subscribed"
  /\ watch' = [watch EXCEPT ![o].state = "unsubscribed"]
  /\ UNCHANGED <<msgVars, treeVars, storageType, filePresent, fileNode, storeObj, changeLock,
                 writers, readers, fsVars, returned>>

\* ------------------------------------------------------------ specification
WriterSteps(W) ==
  \/ \E w \in W, bytes \in Contents, flags \in WriteFlags :
       writeBytes(w, bytes, flags)
  \/ \E w \in W, flags \in SinkFlags : getByteSink(w, flags)
  \/ \E w \in W : changeStart(w)
  \/ \E w \in W : sinkHandout(w)
  \/ \E w \in W : writeSinkThrows(w)
  \/ \E w \in W, b \in Byte : sinkWrite(w, b)
  \/ \E w \in W, err \in BOOLEAN : sinkDone(w, err)
  \/ \E w \in W : storeSaves(w)
  \/ \E w \in W : storeFails(w)
  \/ \E w \in W : commit(w)
  \/ \E w \in W : saveReturns(w)
  \/ \E w \in W : doneReturns(w)

ReaderSteps ==
  \/ \E r \in Readers : readBytes(r)
  \/ \E r \in Readers : readGetObj(r)
  \/ \E r \in Readers : readReturns(r)

WatchSteps ==
  \/ close
  \/ \E o \in Watchers : watchFile(o)
  \/ \E o \in Watchers : detach(o)

Next == WriterSteps(Writers) \/ ReaderSteps \/ WatchSteps
NextW == WriterSteps(Writers)
NextWR == WriterSteps({"w1"}) \/ ReaderSteps
NextFS == WriterSteps({"w1"}) \/ ReaderSteps \/ WatchSteps

Spec == Init /\ [][Next]_vars
SpecW == InitLocal /\ [][NextW]_vars
SpecWR == Init /\ [][NextWR]_vars
SpecFS == InitLocal /\ [][NextFS]_vars

\* SpecW with the scheduling of the writes: a queued change starts when the
\* lock is free, the storage settles every saveObj, and a change whose
\* awaits have resolved goes on to its commit.
SpecWFair ==
  /\ SpecW
  /\ \A w \in Writers :
       /\ WF_vars(changeStart(w))
       /\ WF_vars(storeSaves(w) \/ storeFails(w))
       /\ WF_vars(commit(w))

\* ------------------------------------------------------ XspFS: tree operations
SetOp(m, rec) == treeOps' = [treeOps EXCEPT ![m] = rec]

CanCallTree(m) ==
  /\ treeOps[m].pc \in {"idle", "returned"}
  /\ treeCalls < MaxTreeOps

ReturnedOp(op, exc) == [IdleOp EXCEPT !.pc = "returned", !.op = op, !.exc = exc]

\* storage.getNodeEvents(): the events reach a subscription of watchTree.
Emit(events) ==
  nodeEvents' = IF idToPath.on THEN nodeEvents \o events ELSE nodeEvents

\* The catch block of XspFS.move: the path put on the exception.
moveCatch(exc, initPath, newPath) ==
  IF "notFound" \in exc.flags THEN [exc EXCEPT !.path = initPath]
  ELSE IF "alreadyExists" \in exc.flags THEN [exc EXCEPT !.path = newPath]
  ELSE IF "notDirectory" \in exc.flags THEN [exc EXCEPT !.path = newPath]
  ELSE exc

\* A lock order that takes the source folder first.
lockOrderSrcFirst(src, dst) == <<src, dst>>

\* The two folders of a move in the order moveChildTo takes their locks: the
\* lower objId first.
lockOrder(src, dst) == <<Min(src, dst), Max(src, dst)>>

\* XspFS.move(initPath, newPath) up to the call of moveChildTo: both paths
\* are split, the source folder is found, the source entry is checked, and
\* the destination folder is found or made; moveChildTo then queues for the
\* lock of the first of the two folders.
move(m, initPath, newPath) ==
  LET srcParts == splitPathIntoParts(initPath)
      dstParts == splitPathIntoParts(newPath)
      src == getFolderInThisSubTree(tree, RootId, split(initPath).folderPath,
                                    FALSE, FALSE)
      has == hasChild(tree, src.folder, split(initPath).fileName, TRUE)
      dst == getFolderInThisSubTree(tree, RootId, split(newPath).folderPath,
                                    TRUE, FALSE)
      throw(exc) == /\ SetOp(m, ReturnedOp("move", exc))
                    /\ UNCHANGED <<tree, folderLocks, nodeEvents>>
  IN /\ CanCallTree(m)
     /\ treeCalls' = treeCalls + 1
     /\ IF srcParts = <<>>
        THEN throw(PlainError("Bad initial path: it points to filesystem root"))
        ELSE IF dstParts = <<>>
        THEN throw(PlainError("Bad new path: it points to filesystem root"))
        ELSE IF getRootIfNotClosed(initPath).type # "none"
        THEN throw(getRootIfNotClosed(initPath))
        ELSE IF src.exc.type # "none"
        THEN throw(moveCatch(src.exc, initPath, newPath))
        ELSE IF has.type # "none"
        THEN throw(moveCatch(has, initPath, newPath))
        ELSE /\ dst.exc.type # "bound"
             /\ tree' = dst.tree
             /\ Emit(madeEvents(dst.tree, dst.made))
             /\ IF dst.exc.type # "none"
                THEN /\ SetOp(m, ReturnedOp("move", moveCatch(dst.exc, initPath,
                                                              newPath)))
                     /\ UNCHANGED folderLocks
                ELSE /\ SetOp(m, [IdleOp EXCEPT
                            !.pc = "lockFirst", !.op = "move",
                            !.initPath = initPath, !.newPath = newPath,
                            !.src = src.folder, !.dst = dst.folder,
                            !.initFName = split(initPath).fileName,
                            !.dstFName = split(newPath).fileName,
                            !.label = treeCalls + 1])
                     /\ folderLocks' =
                          [folderLocks EXCEPT
                             ![lockOrder(src.folder, dst.folder)[1]] =
                                lockEnqueue(@, m)]
     /\ UNCHANGED <<idToPath, received, probe, fileVars, msgVars>>

\* moveChildTo: the lock of the first folder is granted; a move between two
\* folders queues for the lock of the second.
moveLockFirst(m) ==
  LET me == treeOps[m]
      first == lockOrder(me.src, me.dst)[1]
      second == lockOrder(me.src, me.dst)[2]
  IN /\ me.pc = "lockFirst"
     /\ lockCanStart(folderLocks[first], m)
     /\ IF me.src = me.dst
        THEN /\ folderLocks' = [folderLocks EXCEPT ![first] = lockAcquire(@, m)]
             /\ SetOp(m, [me EXCEPT !.pc = "locked"])
        ELSE /\ folderLocks' = [folderLocks EXCEPT
                                  ![first] = lockAcquire(@, m),
                                  ![second] = lockEnqueue(@, m)]
             /\ SetOp(m, [me EXCEPT !.pc = "lockSecond"])
     /\ UNCHANGED <<tree, treeCalls, nodeEvents, idToPath, received, probe,
                    fileVars, msgVars>>

\* moveChildTo: the lock of the second folder is granted.
moveLockSecond(m) ==
  LET me == treeOps[m]
      second == lockOrder(me.src, me.dst)[2]
  IN /\ me.pc = "lockSecond"
     /\ lockCanStart(folderLocks[second], m)
     /\ folderLocks' = [folderLocks EXCEPT ![second] = lockAcquire(@, m)]
     /\ SetOp(m, [me EXCEPT !.pc = "locked"])
     /\ UNCHANGED <<tree, treeCalls, nodeEvents, idToPath, received, probe,
                    fileVars, msgVars>>

\* moveChildTo under its locks: the entry is moved, or the call fails; a
\* move inside one folder is told by entry-renaming, a move between two
\* folders by an entry-removal and an entry-addition with one move label,
\* which the storage delivers in either order.  The locks are released and
\* XspFS.move returns, or throws through its catch block.
moveChild(m) ==
  LET me == treeOps[m]
      r == moveChildTo(tree, me.src, me.initFName, me.dst, me.dstFName)
      removal == entryRemoval(r.tree, me.src, me.initFName, me.label)
      addition == entryAddition(r.tree, me.dst, me.dstFName, me.label)
  IN /\ me.pc = "locked"
     /\ folderLocks' = [folderLocks EXCEPT
                          ![me.src] = lockRelease(@),
                          ![me.dst] = lockRelease(@)]
     /\ tree' = r.tree
     /\ IF r.exc.type # "none"
        THEN /\ SetOp(m, ReturnedOp("move", moveCatch(r.exc, me.initPath,
                                                      me.newPath)))
             /\ UNCHANGED nodeEvents
        ELSE /\ SetOp(m, [ReturnedOp("move", NoExc) EXCEPT
                            !.moved = r.child, !.initPath = me.initPath,
                            !.newPath = me.newPath, !.label = me.label])
             /\ IF me.src = me.dst
                THEN Emit(<<entryRenaming(r.tree, me.src, me.initFName,
                                          me.dstFName)>>)
                ELSE \/ Emit(<<removal, addition>>)
                     \/ Emit(<<addition, removal>>)
     /\ UNCHANGED <<treeCalls, idToPath, received, probe, fileVars, msgVars>>

\* A check of deleteFolder that takes every folder for empty.
notEmptyCheckSkipped(t, folder, path, removeContent) == NoExc

\* XspFS.deleteFolder: the exception thrown for a folder with content that
\* the caller did not ask to remove.
notEmptyCheck(t, folder, path, removeContent) ==
  IF ~removeContent /\ ~isEmpty(t, folder)
  THEN makeFileException(excCode("notEmpty"), path) ELSE NoExc

\* XspFS.deleteFolder(path, removeContent); removeChild runs under the lock
\* of the parent folder, so the call is taken when that lock is free.
deleteFolder(m, path, removeContent) ==
  LET parts == split(path)
      parent == getFolderInThisSubTree(tree, RootId, parts.folderPath,
                                       FALSE, FALSE)
      got == getFolder(tree, parent.folder, parts.fileName)
      notEmpty == notEmptyCheck(tree, got.folder, path, removeContent)
      done(exc) == [ReturnedOp("deleteFolder", exc) EXCEPT
                      !.initPath = path, !.removeContent = removeContent]
      throw(exc) == /\ SetOp(m, done(exc))
                    /\ UNCHANGED <<tree, nodeEvents>>
  IN /\ CanCallTree(m)
     /\ treeCalls' = treeCalls + 1
     /\ IF getRootIfNotClosed(path).type # "none"
        THEN throw(getRootIfNotClosed(path))
        ELSE IF parent.exc.type # "none"
        THEN throw(setExcPath(joinParts(parts.folderPath), parent.exc))
        ELSE IF parts.fileName = "undefined"
        THEN throw(PlainError("Cannot remove root folder"))
        ELSE IF got.exc.type # "none"
        THEN throw(setExcPath(path, got.exc))
        ELSE IF notEmpty.type # "none"
        THEN throw(notEmpty)
        ELSE /\ folderLocks[parent.folder].holder = NoWriter
             /\ folderLocks[parent.folder].queue = <<>>
             /\ tree' = removeChild(tree, parent.folder, got.folder)
             /\ Emit(<<entryRemoval(tree, parent.folder, parts.fileName, NoLabel),
                       nodeEvent(tree, got.folder, event("removed"))>>)
             /\ SetOp(m, [done(NoExc) EXCEPT !.moved = got.folder])
     /\ UNCHANGED <<folderLocks, idToPath, received, probe, fileVars, msgVars>>

\* XspFS.deleteFolder(path, removeContent) up to its await of
\* parentFolder.removeChild(folder): the parent and the folder are found,
\* the folder is checked for content, and removeChild queues for the lock
\* of the parent.
deleteFolderCheck(m, path, removeContent) ==
  LET parts == split(path)
      parent == getFolderInThisSubTree(tree, RootId, parts.folderPath,
                                       FALSE, FALSE)
      got == getFolder(tree, parent.folder, parts.fileName)
      notEmpty == notEmptyCheck(tree, got.folder, path, removeContent)
      done(exc) == [ReturnedOp("deleteFolder", exc) EXCEPT
                      !.initPath = path, !.removeContent = removeContent]
      throw(exc) == /\ SetOp(m, done(exc))
                    /\ UNCHANGED folderLocks
  IN /\ CanCallTree(m)
     /\ treeCalls' = treeCalls + 1
     /\ IF getRootIfNotClosed(path).type # "none"
        THEN throw(getRootIfNotClosed(path))
        ELSE IF parent.exc.type # "none"
        THEN throw(setExcPath(joinParts(parts.folderPath), parent.exc))
        ELSE IF parts.fileName = "undefined"
        THEN throw(PlainError("Cannot remove root folder"))
        ELSE IF got.exc.type # "none"
        THEN throw(setExcPath(path, got.exc))
        ELSE IF notEmpty.type # "none"
        THEN throw(notEmpty)
        ELSE /\ folderLocks' = [folderLocks EXCEPT
                                  ![parent.folder] = lockEnqueue(@, m)]
             /\ SetOp(m, [done(NoExc) EXCEPT
                            !.pc = "removeChild", !.src = parent.folder,
                            !.initFName = parts.fileName,
                            !.moved = got.folder])
     /\ UNCHANGED <<tree, nodeEvents, idToPath, received, probe, fileVars,
                    msgVars>>

\* parentFolder.removeChild(folder) under the lock of the parent: the
\* entry of the folder goes, with everything under it; a folder that is no
\* longer an entry of the parent is not removed.
deleteFolderRemove(m) ==
  LET me == treeOps[m]
      isChild == /\ tree[me.moved].state = "present"
                 /\ tree[me.moved].parent = me.src
                 /\ tree[me.moved].name = me.initFName
  IN /\ me.pc = "removeChild"
     /\ lockCanStart(folderLocks[me.src], m)
     /\ folderLocks' = [folderLocks EXCEPT
                          ![me.src] = lockRelease(lockAcquire(@, m))]
     /\ IF isChild
        THEN /\ tree' = removeChild(tree, me.src, me.moved)
             /\ Emit(<<entryRemoval(tree, me.src, me.initFName, NoLabel),
                       nodeEvent(tree, me.moved, event("removed"))>>)
             /\ SetOp(m, [me EXCEPT !.pc = "returned"])
        ELSE /\ UNCHANGED <<tree, nodeEvents>>
             /\ SetOp(m, [me EXCEPT !.pc = "returned",
                                    !.exc = PlainError("Not a child given")])
     /\ UNCHANGED <<treeCalls, idToPath, received, probe, fileVars, msgVars>>

\* A policy that lets a synced storage link to any storage.
ensureLinkingAllowedFromSynced(own, paramsStorageType) ==
  IF own \in {"local", "synced"} THEN NoExc
  ELSE IF own = "share" /\ paramsStorageType = "share" THEN NoExc
  ELSE PlainError("Cannot create link")

\* XspFS.ensureLinkingAllowedTo(params): the exception thrown, or none.
ensureLinkingAllowedTo(own, paramsStorageType) ==
  IF own = "local" THEN NoExc
  ELSE IF own = "synced" /\ paramsStorageType \in {"share", "synced"} THEN NoExc
  ELSE IF own = "share" /\ paramsStorageType = "share" THEN NoExc
  ELSE PlainError("Cannot create link")

\* XspFS.link(path, target), for a target whose getLinkParams gives params
\* of a storage type.
link(m, path, targetStorageType) ==
  LET allowed == ensureLinkingAllowedTo(storageType, targetStorageType)
      parts == split(path)
      folder == getFolderInThisSubTree(tree, RootId, parts.folderPath,
                                       TRUE, FALSE)
      made == createLink(folder.tree, folder.folder, parts.fileName)
      done(exc) == [ReturnedOp("link", exc) EXCEPT !.initPath = path,
                                                   !.target = targetStorageType]
      throw(exc) == /\ SetOp(m, done(exc))
                    /\ UNCHANGED <<tree, nodeEvents>>
  IN /\ CanCallTree(m)
     /\ treeCalls' = treeCalls + 1
     /\ IF allowed.type # "none" THEN throw(allowed)
        ELSE IF getRootIfNotClosed(path).type # "none"
        THEN throw(getRootIfNotClosed(path))
        ELSE /\ folder.exc.type # "bound"
             /\ IF folder.exc.type # "none"
                THEN /\ tree' = folder.tree
                     /\ Emit(madeEvents(folder.tree, folder.made))
                     /\ SetOp(m, done(setExcPath(path, folder.exc)))
                ELSE /\ unusedIds(tree, LinkIds) # {}
                     /\ tree' = made.tree
                     /\ Emit(madeEvents(folder.tree, folder.made)
                             \o (IF made.exc.type = "none"
                                 THEN <<entryAddition(made.tree, folder.folder,
                                                      parts.fileName, NoLabel)>>
                                 ELSE <<>>))
                     /\ SetOp(m, done(made.exc))
     /\ UNCHANGED <<folderLocks, idToPath, received, probe, fileVars, msgVars>>

\* The file-change events the subscription was sent.
\* XspFS.storage(): the exception thrown when the store is gone.
storage ==
  IF ~store THEN makeFileException(excCode("storageClosed"), "") ELSE NoExc

\* XspFS.readonlySubRoot(path): the folder at the path becomes the root of
\* a new readonly XspFS; src is that folder.
readonlySubRoot(m, path) ==
  LET pathParts == splitPathIntoParts(path)
      closedExc == getRootIfNotClosed(path)
      folder == getFolderInThisSubTree(tree, RootId, pathParts, FALSE, FALSE)
      done(exc) == [ReturnedOp("readonlySubRoot", exc) EXCEPT !.initPath = path]
  IN /\ CanCallTree(m)
     /\ treeCalls' = treeCalls + 1
     /\ SetOp(m, IF closedExc.type # "none" THEN done(closedExc)
                 ELSE IF folder.exc.type # "none"
                 THEN done(setExcPath(path, folder.exc))
                 ELSE IF storage.type # "none" THEN done(storage)
                 ELSE [done(NoExc) EXCEPT !.src = folder.folder])
     /\ UNCHANGED <<tree, folderLocks, nodeEvents, idToPath, received, probe,
                    fileVars, msgVars>>

fileChanges ==
  Len(SelectSeq(nodeEvents, LAMBDA ne : ne.event.type = "file-change"))
  + Len(SelectSeq(received, LAMBDA ne : ne.event.type = "file-change"))

\* A write to a file commits: FileNode broadcasts file-change with the
\* file's name as path.
fileChanged(file) ==
  /\ fileChanges < MaxFileEvents
  /\ tree[file].state = "present"
  /\ Emit(<<nodeEvent(tree, file, event("file-change"))>>)
  /\ UNCHANGED <<tree, folderLocks, treeOps, treeCalls, idToPath, received,
                 probe, fileVars, msgVars>>

\* XspFS.watchTree('/', observer): the map is filled from the tree, and the
\* events of the storage are taken from then on.
watchTree ==
  /\ ~idToPath.on
  /\ getRootIfNotClosed("/").type = "none"
  /\ idToPath' = [fillFromTree(NoIdToPath, tree, RootId) EXCEPT !.on = TRUE]
  /\ UNCHANGED <<tree, folderLocks, treeOps, treeCalls, nodeEvents, received,
                 probe, fileVars, msgVars>>

\* The map stage of watchTree on the next event of the storage: the event
\* is passed on with the path of getPathCorrectingTreeMap, or dropped.
watchTreeEvent ==
  LET ne == Head(nodeEvents)
      r == getPathCorrectingTreeMap(idToPath, ne)
  IN /\ idToPath.on
     /\ nodeEvents # <<>>
     /\ nodeEvents' = Tail(nodeEvents)
     /\ idToPath' = afterEvent(idToPath, ne)
     /\ received' = IF r.path = "undefined" THEN received
                    ELSE Append(received, [ne EXCEPT !.event.path = r.path])
     /\ UNCHANGED <<tree, folderLocks, treeOps, treeCalls, probe, fileVars, msgVars>>

\* folder.list() in recursiveIdAndPathList: the items of a folder that are
\* folders, each with the path the recursion gives it.
folderItems(t, folder, path) ==
  LET fs == inOrder({c \in children(t, folder) : typeOf(c) = "folder"})
  IN [i \in 1..Len(fs) |->
        [folder |-> folder, name |-> t[fs[i]].name,
         path |-> path \o "/" \o t[fs[i]].name]]

\* XspFS.watchTree('/', observer) up to the first await of the traversal:
\* the root is found and listed.
watchTreeStart ==
  /\ ~idToPath.on
  /\ idToPath.fill = "none"
  /\ getRootIfNotClosed("/").type = "none"
  /\ idToPath' = [idToPath EXCEPT
                    !.fill = "walking",
                    !.list = <<[key |-> RootId, value |-> "."]>>,
                    !.todo = folderItems(tree, RootId, ".")]
  /\ UNCHANGED <<tree, folderLocks, treeOps, treeCalls, nodeEvents, received,
                 probe, fileVars, msgVars>>

\* await folder.getFolder(item.name) resolves for the next listed item: the
\* child is listed and its items come before the items still waiting; a
\* child that is no longer there rejects the traversal.
watchTreeVisit ==
  /\ idToPath.fill = "walking"
  /\ idToPath.todo # <<>>
  /\ LET item == Head(idToPath.todo)
         child == getFolder(tree, item.folder, item.name)
     IN idToPath' =
          IF child.exc.type # "none"
          THEN [idToPath EXCEPT !.fill = "failed", !.list = <<>>, !.todo = <<>>]
          ELSE [idToPath EXCEPT
                  !.list = Append(@, [key |-> child.folder, value |-> item.path]),
                  !.todo = folderItems(tree, child.folder, item.path)
                           \o Tail(@)]
  /\ UNCHANGED <<tree, folderLocks, treeOps, treeCalls, nodeEvents, received,
                 probe, fileVars, msgVars>>

\* The traversal has returned: fillFromTree sets the pairs, and mergeMap
\* subscribes to storage.getNodeEvents().
watchTreeSubscribe ==
  /\ idToPath.fill = "walking"
  /\ idToPath.todo = <<>>
  /\ idToPath' = [idToPath EXCEPT !.on = TRUE, !.fill = "set",
                                  !.map = setAll(@, idToPath.list),
                                  !.list = <<>>]
  /\ UNCHANGED <<tree, folderLocks, treeOps, treeCalls, nodeEvents, received,
                 probe, fileVars, msgVars>>

\* The bounds a caller gives readBytes: omitted, or a position up to one
\* past the longest content.
RangeBounds == {Undefined} \cup (0..(MaxLen + 1))

\* FileNode.readBytes(start, end) of a file whose object the storage holds.
readBytesOfRange(start, end) ==
  LET r == readBytesOfPayload(storeObj, start, end)
  IN /\ probe.op = "none"
     /\ storeObj.version >= 1
     /\ probe' = [op |-> "readBytes", start |-> start, end |-> end,
                  threw |-> r.threw, bytes |-> r.bytes,
                  version |-> IF Versioned THEN storeObj.version ELSE Undefined]
     /\ UNCHANGED <<tree, folderLocks, treeOps, treeCalls, nodeEvents, idToPath,
                    received, fileVars, msgVars>>

\* A call of splitPathIntoParts(path), as every operation of XspFS makes
\* first with the path it is given.
parsePath(chars) ==
  /\ probe.op = "none"
  /\ probe' = [op |-> "splitPathIntoParts", path |-> chars,
               parts |-> splitCharsIntoParts(chars)]
  /\ UNCHANGED <<tree, folderLocks, treeOps, treeCalls, nodeEvents, idToPath,
                 received, fileVars, msgVars>>

NextPath == \E chars \in PathInputs : parsePath(chars)

SpecPath == InitLocal /\ [][NextPath]_vars

\* ------------------------------------------------------ MsgPacker: actions
\* A call of the packer threw, and left the packer as it was.
packerThrew(op) ==
  /\ packer' = [packer EXCEPT !.last = [NoLast EXCEPT !.op = op, !.threw = TRUE]]
  /\ UNCHANGED <<treeVars, fileVars, remote>>

\* A call of the packer returned, the packer being pk after it.
packerDid(op, pk) ==
  /\ packer' = [pk EXCEPT !.last = [NoLast EXCEPT !.op = op]]
  /\ UNCHANGED <<treeVars, fileVars, remote>>

\* throwIfAlreadyPacked()
alreadyPacked == packer.readyPack.packed

\* MsgPacker.empty(segSizeIn256bs)
emptyPacker(key) ==
  /\ ~packer.made
  /\ packerDid("empty", newMsgPacker({}, key))

\* setPlainTextBody(text): the getter mainBody throws on a packed message.
setPlainTextBody(text) ==
  /\ packer.made
  /\ IF alreadyPacked THEN packerThrew("setPlainTextBody")
     ELSE packerDid("setPlainTextBody",
                    [packer EXCEPT !.main.body = text, !.wasBodySet = TRUE])

\* setSection(name, value): a managed field cannot be set.
setSection(name, value) ==
  /\ packer.made
  /\ IF alreadyPacked \/ name \in {"Flow Params", "Body", "Attachments"}
     THEN packerThrew("setSection")
     ELSE packerDid("setSection", [packer EXCEPT !.main.subject = value])

setEstablishedKeyPairInfo(pid, msgCount) ==
  /\ packer.made
  /\ IF alreadyPacked \/ packer.meta # "none"
     THEN packerThrew("setEstablishedKeyPairInfo")
     ELSE packerDid("setEstablishedKeyPairInfo",
                    [packer EXCEPT !.meta = pid, !.main.msgCount = msgCount])

setNextCrypto(pair) ==
  /\ packer.made
  /\ IF alreadyPacked THEN packerThrew("setNextCrypto")
     ELSE packerDid("setNextCrypto", [packer EXCEPT !.main.nextCrypto = pair])

\* setNextSendingParams(params) sets the flow parameter, packed or not.
setNextSendingParams(params) ==
  /\ packer.made
  /\ packerDid("setNextSendingParams",
               [packer EXCEPT !.main.nextSendingParams = params])

\* addFileInto(folderInfo, fName, file): the nodes of the folder with the
\* new file, and allObjs with its object.
addFileInto(allObjs, nodes, fName, key) ==
  LET id == generateMsgObjId(idsOf(allObjs))
  IN [allObjs |-> mapSet(allObjs, id, fileObj(id, key)),
      nodes |-> Append(nodes, nodeInJSON(fName, id, key))]

\* addFolderInto(outerFolder, fName, fs, fsPath) of a folder that holds
\* one file: the file is added into the new folder, then the folder into
\* the outer one.
addFolderInto(allObjs, nodes, fName, inner, fileKey, key) ==
  LET file == addFileInto(allObjs, <<>>, inner, fileKey)
      id == generateMsgObjId(idsOf(file.allObjs))
  IN [allObjs |-> mapSet(file.allObjs, id, folderObj(id, file.nodes, key)),
      nodes |-> Append(nodes, nodeInJSON(fName, id, key))]

\* The attachments a caller gives: a container with the file x, a
\* container with the folder d that holds the file x, or neither a
\* container with something in it nor a file system.
Attachments == {"file", "folder", "none"}

setAttachments(att, fileKey, key) ==
  /\ packer.made
  /\ IF alreadyPacked \/ packer.hasAttachments \/ att = "none"
     THEN packerThrew("setAttachments")
     ELSE LET added == IF att = "file"
                       THEN addFileInto(packer.allObjs, <<>>, "x", fileKey)
                       ELSE addFolderInto(packer.allObjs, <<>>, "d", "x",
                                          fileKey, key)
          IN packerDid("setAttachments",
                       [packer EXCEPT !.allObjs = added.allObjs,
                                      !.hasAttachments = TRUE,
                                      !.main.attachments = added.nodes])

\* throwupOnMissingParts()
missingParts == packer.meta = "none" \/ ~packer.wasBodySet

\* pack(): the ready pack, or a new one that becomes the ready pack.
pack ==
  /\ packer.made
  /\ IF alreadyPacked THEN packerDid("pack", packer)
     ELSE IF missingParts THEN packerThrew("pack")
     ELSE packerDid("pack", [packer EXCEPT !.readyPack = packOf(packer)])

\* getSrcForMainObj(msgKeyEnc, cryptor): the bytes are the json of the main
\* object in allObjs, as it is at the call, under the key of that object.
getSrcForMainObj ==
  /\ packer.made
  /\ LET obj == mapGet(packer.allObjs, packer.mainObjId)
     IN /\ packer' = [packer EXCEPT
                        !.last = [op |-> "getSrcForMainObj", threw |-> FALSE,
                                  json |-> copyObj(packer.main, obj).json,
                                  key |-> obj.key]]
        /\ UNCHANGED <<treeVars, fileVars, remote>>

\* MsgPacker.fromPack(p, ...) of the pack that pack() gave.
fromPack(key) ==
  /\ packer.made
  /\ packer.readyPack.packed
  /\ packerDid("fromPack", packerFromPack(packer.readyPack, key))

\* base64.open is given bytes where it takes a string, for the nodes of a
\* folder: it may also throw, and fromPack with it.
fromPackThrows ==
  /\ packer.made
  /\ packer.readyPack.packed
  /\ \E i \in 1..Len(packer.readyPack.objs) :
       packer.readyPack.objs[i].value.nodes # <<>>
  /\ packerThrew("fromPack")

NextPacker ==
  \/ \E key \in RandomKeys : emptyPacker(key)
  \/ setPlainTextBody("text")
  \/ \E name \in {"Subject", "Body"} : setSection(name, "subject")
  \/ setEstablishedKeyPairInfo("pid", 1)
  \/ setNextCrypto("pair")
  \/ setNextSendingParams("params")
  \/ \E att \in Attachments, fileKey \in RandomKeys, key \in RandomKeys :
       setAttachments(att, fileKey, key)
  \/ pack
  \/ getSrcForMainObj
  \/ \E key \in RandomKeys : fromPack(key)
  \/ fromPackThrows

SpecPacker == InitLocal /\ [][NextPacker]_vars

\* --------------------------------------------------- RemoteEvents: actions
SetRemote(rec) ==
  /\ remote' = rec
  /\ UNCHANGED <<treeVars, fileVars, packer>>

SetHandler(h, pc) == SetRemote([remote EXCEPT !.handlers[h].pc = pc])

AtAwait(h, pc) == h \in 1..Len(remote.handlers) /\ remote.handlers[h].pc = pc

\* The promise of a handler rejected: mergeMap passes the error on, the
\* merged stream ends with it, and the subscriber logs it.
streamError(h) ==
  SetRemote([remote EXCEPT
               !.handlers[h].pc = "rejected",
               !.logged = @ + 1,
               !.sub = IF @ = "on" THEN "errored" ELSE @])

startAbsorbingRemoteEvents ==
  /\ remote.sub = "none"
  /\ SetRemote([remote EXCEPT !.sub = "on"])

\* An objChanged event of the server: it passes the filter with an integer
\* newVer above 1, and remoteChange awaits files.findObj.
objChangeEvent(newVer) ==
  /\ remote.sub = "on"
  /\ Len(remote.handlers) < MaxRemoteEvents
  /\ SetRemote([remote EXCEPT
                  !.handlers = Append(@, IF newVer > 1
                                         THEN [kind |-> "change", pc |-> "findObj"]
                                         ELSE [kind |-> "change", pc |-> "filtered"])])

\* An objRemoved event of the server: it passes the filter with an objId,
\* and remoteRemoval awaits files.findObj.
objRemovalEvent(hasObjId) ==
  /\ remote.sub = "on"
  /\ Len(remote.handlers) < MaxRemoteEvents
  /\ SetRemote([remote EXCEPT
                  !.handlers = Append(@, IF hasObjId
                                         THEN [kind |-> "removal", pc |-> "findObj"]
                                         ELSE [kind |-> "removal", pc |-> "filtered"])])

\* files.findObj resolves: without an object, or with a status that has the
\* event already, the handler returns; else it awaits the recording of the
\* status (setRemoteVersion, setDeletedOnRemote).
findObjResolves(h, found, known) ==
  /\ AtAwait(h, "findObj")
  /\ SetHandler(h, IF ~found \/ known THEN "returned" ELSE "setStatus")

findObjRejects(h) ==
  /\ AtAwait(h, "findObj")
  /\ streamError(h)

\* The status is recorded: without a node in the file system the handler
\* returns, else it awaits the node's processRemoteEvent.
setStatusResolves(h, hasNode) ==
  /\ AtAwait(h, "setStatus")
  /\ SetHandler(h, IF hasNode THEN "process" ELSE "returned")

setStatusRejects(h) ==
  /\ AtAwait(h, "setStatus")
  /\ streamError(h)

processRemoteEventResolves(h) ==
  /\ AtAwait(h, "process")
  /\ SetRemote([remote EXCEPT !.handlers[h].pc = "returned",
                              !.processed = @ + 1])

\* processRemoteEvent rejects: the catch of the handler takes the
\* exception, and logs it unless it is a not-found one.
processRemoteEventRejects(h, notFound) ==
  /\ AtAwait(h, "process")
  /\ SetRemote([remote EXCEPT !.handlers[h].pc = "returned",
                              !.logged = IF notFound THEN @ ELSE @ + 1])

\* RemoteEvents.close()
closeRemote ==
  /\ remote.sub \in {"on", "errored"}
  /\ SetRemote([remote EXCEPT !.sub = "closed"])

NextRemote ==
  \/ startAbsorbingRemoteEvents
  \/ \E newVer \in 1..2 : objChangeEvent(newVer)
  \/ \E hasObjId \in BOOLEAN : objRemovalEvent(hasObjId)
  \/ \E h \in 1..MaxRemoteEvents :
       \/ \E found \in BOOLEAN, known \in BOOLEAN : findObjResolves(h, found, known)
       \/ findObjRejects(h)
       \/ \E hasNode \in BOOLEAN : setStatusResolves(h, hasNode)
       \/ setStatusRejects(h)
       \/ processRemoteEventResolves(h)
       \/ \E notFound \in BOOLEAN : processRemoteEventRejects(h, notFound)
  \/ closeRemote

SpecRemote == InitLocal /\ [][NextRemote]_vars

\* ---------------------------------------------------------- addMsg: actions
\* A message goes from the caller to the core: packed on the side of the
\* caller, unpacked on the side of the core.
addMsg(m) ==
  /\ probe.op = "none"
  /\ probe' = [op |-> "addMsg", msg |-> m, unpacked |-> unpackMsg(packMsg(m))]
  /\ UNCHANGED <<tree, folderLocks, treeOps, treeCalls, nodeEvents, idToPath,
                 received, fileVars, msgVars>>

NextAddMsg == \E m \in OutgoingMessages : addMsg(m)

SpecAddMsg == InitLocal /\ [][NextAddMsg]_vars

\* ---------------------------------------------------------- tree: the specs
\* The paths the moves of the watched tree are called with.
WatchPaths == {"/a", "/b", "/a/f", "/b/f", "/f", "/b/b"}

MoveSteps(M, Paths) ==
  \E m \in M :
    \/ \E initPath \in Paths, newPath \in Paths : move(m, initPath, newPath)
    \/ moveLockFirst(m)
    \/ moveLockSecond(m)
    \/ moveChild(m)

FolderSteps ==
  \/ \E path \in TreePaths, removeContent \in BOOLEAN :
       deleteFolder("m1", path, removeContent)
  \/ \E path \in TreePaths, t \in StorageTypes : link("m1", path, t)
  \/ \E path \in TreePaths : readonlySubRoot("m1", path)

WatchTreeSteps ==
  \/ \E file \in FileIds : fileChanged(file)
  \/ watchTree
  \/ watchTreeEvent

NextTree == MoveSteps(TreeCallers, TreePaths)
NextFolder == MoveSteps({"m1"}, TreePaths) \/ FolderSteps
NextWatch == MoveSteps({"m1"}, WatchPaths) \/ WatchTreeSteps

NextWalk ==
  \/ MoveSteps({"m1"}, WatchPaths)
  \/ watchTreeStart
  \/ watchTreeVisit
  \/ watchTreeSubscribe
  \/ watchTreeEvent

NextDelete ==
  \/ MoveSteps({"m1"}, WatchPaths)
  \/ \E path \in {"/a", "/b", "/a/f"}, removeContent \in BOOLEAN :
       deleteFolderCheck("m2", path, removeContent)
  \/ deleteFolderRemove("m2")

SpecTree == InitLocal /\ [][NextTree]_vars
SpecDelete == InitLocal /\ [][NextDelete]_vars
SpecWalk == InitLocal /\ [][NextWalk]_vars
SpecFolder == Init /\ [][NextFolder]_vars
SpecWatch == InitLocal /\ [][NextWatch]_vars

\* A file that V.writeBytes has written once, with any content, on a storage
\* of any type.
InitRange ==
  /\ storageType \in StorageTypes
  /\ \E bytes \in Contents :
       LET params == getParamsForUpdate(makeForNew(0), 1)
       IN /\ storeObj = [version |-> params.newVersion, content |-> bytes,
                         size |-> Len(bytes), attrs |-> params.attrs,
                         xattrs |-> params.xattrs, given |-> SomeBytes(bytes)]
          /\ fileNode = setUpdatedState(makeForNew(0), params.newVersion,
                           [attrs |-> params.attrs, size |-> Len(bytes),
                            xattrs |-> params.xattrs])
  /\ filePresent = TRUE
  /\ changeLock = [holder |-> NoWriter, queue |-> <<>>]
  /\ writers = [w \in Writers |-> IdleWriter]
  /\ readers = [r \in Readers |-> IdleReader]
  /\ rootNode = TRUE
  /\ store = TRUE
  /\ fsObs = [emitted |-> <<>>, doneCalls |-> 0]
  /\ watch = [o \in Watchers |-> NoWatch]
  /\ returned = [calls |-> 1, any |-> 1, ok |-> 1]
  /\ TreeStart
  /\ MsgStart

NextRange == \E start \in RangeBounds, end \in RangeBounds : readBytesOfRange(start, end)

SpecRange == InitRange /\ [][NextRange]_vars

\* Each step of a move that is under way is a continuation the event loop
\* runs once its promise has resolved.
SpecTreeFair ==
  /\ SpecTree
  /\ \A m \in TreeCallers :
       /\ WF_vars(moveLockFirst(m))
       /\ WF_vars(moveLockSecond(m))
       /\ WF_vars(moveChild(m))


\* ================================================================== claims
\* A write is in progress from the start of its change until the change has
\* committed or failed.
InProgress(w) == writers[w].task \in {"saveObj", "awaitSize"}

\* A write has made its version: the change of a save, or of a sink that
\* was done without error, commits.
Succeeds(w) == commit(w) /\ ~writers[w].doneErr

\* The record of a call carries a file exception marked storage-closed with
\* the path given to the call.
MarkedClosed(rec) ==
  /\ rec.exc.type = "file"
  /\ "storageClosed" \in rec.exc.flags
  /\ rec.exc.path = FilePath

\* Every call made in this step fails as a call on a closed filesystem.
CallsFailClosed ==
  /\ \A w \in Writers, bytes \in Contents, flags \in WriteFlags :
       writeBytes(w, bytes, flags) => MarkedClosed(writers'[w])
  /\ \A w \in Writers, flags \in SinkFlags :
       getByteSink(w, flags) => MarkedClosed(writers'[w])
  /\ \A r \in Readers : readBytes(r) => MarkedClosed(readers'[r])
  /\ \A o \in Watchers : watchFile(o) => MarkedClosed(watch'[o])

C3_RoundTrip ==
  [][\A r \in Readers :
       readReturns(r) /\ readers[r].objSrc.given.defined =>
         /\ readers'[r].bytes = readers[r].objSrc.given
         /\ readers'[r].version >= 1]_vars

\* C3, amended: readBytes of an object that writeBytes made of bytes B
\* returns exactly B when B is not empty and no bytes at all when B is
\* empty; the version is the object's, >= 1, on a versioned storage and
\* undefined on any other.
C3_RoundTripOfNonEmpty ==
  [][\A r \in Readers :
       readReturns(r) /\ readers[r].objSrc.given.defined =>
         LET B == readers[r].objSrc.given.data
         IN /\ B # <<>> => readers'[r].bytes = SomeBytes(B)
            /\ B = <<>> => readers'[r].bytes = NoBytes
            /\ Versioned => /\ readers'[r].version >= 1
                            /\ readers'[r].version = readers[r].objSrc.version
            /\ ~Versioned => readers'[r].version = Undefined]_vars

\* C3 witness: a read has returned the non-empty bytes that writeBytes gave
\* for the object in the storage, with a version >= 1.
C3_Witness ==
  \E r \in Readers :
    /\ readers[r].pc = "returned"
    /\ readers[r].bytes.defined /\ readers[r].bytes.data # <<>>
    /\ readers[r].bytes = storeObj.given
    /\ readers[r].version >= 1

\* C4: every call made after close fails with a file exception marked
\* storage-closed that carries the path given to the call.
C4_ClosedCallsFail == [][Closed => CallsFailClosed]_vars

\* C5: a second close changes nothing of the closed filesystem, and after
\* it every call still fails with storage-closed.
C5_SecondCloseNoOp ==
  [][/\ fsObs.doneCalls >= 1 /\ close =>
          /\ Closed'
          /\ UNCHANGED <<rootNode, store, watch>>
          /\ fsObs'.emitted = fsObs.emitted
     /\ fsObs.doneCalls >= 2 => Closed /\ CallsFailClosed]_vars

\* C6: after close, no observer subscribed through watchFile receives an
\* event.
C6_NoEventAfterClose == \A o \in Watchers : ~watch[o].afterClose

\* C7: a streaming write given a currentVersion other than the node's
\* version fails with a version-mismatch file exception: its change is
\* rejected at its start with no sink made, no version assigned and nothing
\* saved, node and storage stay as they are, and the call throws the
\* exception instead of returning a sink.
C7_VersionMismatch ==
  [][\A w \in Writers :
       /\ ( /\ changeStart(w)
            /\ writers[w].kind = "sink"
            /\ writers[w].call.currentVersion # Undefined
            /\ writers[w].call.currentVersion # fileNode.version )
          => /\ writers'[w].task = "rejected"
             /\ writers'[w].exc.type = "file"
             /\ writers'[w].exc.flags = {"versionMismatch"}
             /\ writers'[w].sink = "none"
             /\ writers'[w].newVersion = 0
             /\ fileNode' = fileNode
             /\ storeObj' = storeObj
       /\ (writers[w].task = "rejected" /\ "versionMismatch" \in writers[w].exc.flags)
          => /\ writers[w].caller = "awaitRace"
             /\ writers'[w] # writers[w] =>
                  /\ writers'[w].caller = "returned"
                  /\ writers'[w].result = "threw"
                  /\ writers'[w].exc = writers[w].exc
                  /\ writers'[w].sink = "none"
                  /\ fileNode' = fileNode
                  /\ storeObj' = storeObj]_vars

\* C7 witness: getByteSink has thrown a version-mismatch exception on a
\* node that has a saved version.
C7_Witness ==
  \E w \in Writers :
    /\ writers[w].result = "threw"
    /\ "versionMismatch" \in writers[w].exc.flags
    /\ fileNode.version >= 1

\* C8: a streaming write finished with done(err) cancels the sink, and no
\* later step of that write changes the node, whatever the storage does
\* with the cancelled save.
C8_AbandonedWriteLeavesNode ==
  [][\A w \in Writers :
       /\ sinkDone(w, TRUE) => writers'[w].sink = "cancelled"
       /\ (writers[w].doneErr /\ writers'[w] # writers[w]) => fileNode' = fileNode]_vars

\* C9: when saveObj fails after the sink was handed out, the sink is
\* cancelled if it was still open, the node is left as it is, and done()
\* called without error rejects with that failure.
C9_SaveErrorSurfaces ==
  [][\A w \in Writers :
       /\ (storeFails(w) /\ writers[w].caller \in {"sinkOpen", "inDone"})
          => /\ writers'[w].sink \in {"cancelled", "completed"}
             /\ writers[w].sink = "open" => writers'[w].sink = "cancelled"
             /\ writers'[w].exc = PlainError("saveObj failed")
             /\ fileNode' = fileNode
       /\ (doneReturns(w) /\ ~writers[w].doneErr /\ writers[w].task = "rejected")
          => /\ writers'[w].result = "threw"
             /\ writers'[w].exc = PlainError("saveObj failed")
             /\ fileNode' = fileNode]_vars

\* C9 witness: done() of a sink that was handed out has rejected with the
\* failure of saveObj.
C9_Witness ==
  \E w \in Writers :
    /\ writers[w].result = "threw"
    /\ writers[w].exc = PlainError("saveObj failed")
    /\ writers[w].version >= 1

\* C10: a write through a path fails with not-found exactly when create is
\* false and the file is missing, with already-exists exactly when create
\* and exclusive are true and the file exists, and otherwise queues its
\* write; a streaming write that truncates starts from no base object.
C10_WriteFlags ==
  [][\A w \in Writers :
       /\ \A flags \in SinkFlags :
            getByteSink(w, flags) =>
              /\ "notFound" \in writers'[w].exc.flags
                   <=> (~flags.create /\ ~filePresent)
              /\ "alreadyExists" \in writers'[w].exc.flags
                   <=> (flags.create /\ flags.exclusive /\ filePresent)
              /\ writers'[w].exc = NoExc <=> writers'[w].task = "queued"
       /\ \A bytes \in Contents, flags \in WriteFlags :
            writeBytes(w, bytes, flags) =>
              /\ "notFound" \in writers'[w].exc.flags
                   <=> (~flags.create /\ ~filePresent)
              /\ "alreadyExists" \in writers'[w].exc.flags
                   <=> (flags.create /\ flags.exclusive /\ filePresent)
              /\ writers'[w].exc = NoExc <=> writers'[w].task = "queued"
       /\ (changeStart(w) /\ writers[w].kind = "sink" /\ writers[w].call.truncate
             /\ writers'[w].task = "saveObj")
          => writers'[w].base = Undefined /\ writers'[w].sinkContent = <<>>]_vars

\* ------------------------------------------------- persistence at creation
\* The names listed by the stored payload of the parent folder.
\* FolderNode.createFile installs the entry and persists the folder before
\* V.getOrCreateFile returns the new node.
persistedFolderEntries == IF filePresent THEN {FileName} ELSE {}

\* The names whose object the storage holds: FileNode.makeForNew writes
\* nothing, the first object of a file is the one FileNode.save or the sink
\* of FileNode.writeSink hands to storage.saveObj.
persistedObjs == IF storeObj.version >= 1 THEN {FileName} ELSE {}

\* C11: child-first persistence: in every reachable state each entry of the
\* stored parent folder names a file whose object is in the storage.
C11_NoDanglingEntry == persistedFolderEntries \subseteq persistedObjs

\* ------------------------------------------------------------ tree: claims
\* C12: rename identity: when a move from A to B succeeds, the node then
\* found at B is the node that was at A (the same objId, whose object in
\* the storage holds the content), and nothing is found at A.
C12_RenameIdentity ==
  [][\A m \in TreeCallers :
       (moveChild(m) /\ treeOps'[m].exc.type = "none") =>
         LET A == splitPathIntoParts(treeOps[m].initPath)
             B == splitPathIntoParts(treeOps[m].newPath)
         IN /\ nodeAt(tree, RootId, A) # NoId
            /\ nodeAt(tree', RootId, B) = nodeAt(tree, RootId, A)
            /\ nodeAt(tree', RootId, A) = NoId]_vars

MoveUnderWay(m) == treeOps[m].pc \in {"lockFirst", "lockSecond", "locked"}

C14_MoveErrorPaths ==
  [][\A m \in TreeCallers :
       /\ \A initPath \in TreePaths \ {"/"}, newPath \in TreePaths \ {"/"} :
            move(m, initPath, newPath) =>
              LET src == getFolderInThisSubTree(tree, RootId,
                           split(initPath).folderPath, FALSE, FALSE)
                  has == hasChild(tree, src.folder, split(initPath).fileName, TRUE)
                  dst == getFolderInThisSubTree(tree, RootId,
                           split(newPath).folderPath, TRUE, FALSE)
                  thrown == treeOps'[m].exc
              IN IF src.exc.type # "none" \/ has.type # "none"
                 THEN thrown.type = "file" /\ thrown.path = initPath
                 ELSE dst.exc.type = "file" =>
                        thrown.type = "file" /\ thrown.path = newPath
       /\ (moveChild(m) /\ treeOps'[m].exc.type # "none") =>
            LET thrown == treeOps'[m].exc
            IN /\ thrown.type = "file"
               /\ entry(tree, treeOps[m].src, treeOps[m].initFName) = {}
                    => thrown.path = treeOps[m].initPath
               /\ entry(tree, treeOps[m].src, treeOps[m].initFName) # {}
                    => thrown.path = treeOps[m].newPath]_vars

\* ------------------------------------------------------- watchTree: claims
\* The events with a move label that the observer received, of one type.
ReceivedWith(type, label) ==
  {i \in 1..Len(received) :
     received[i].event.type = type /\ received[i].event.moveLabel = label}

\* The latest call was a move between two folders that succeeded while the
\* subscription was on, and watchTree has taken every event.
CrossFolderMoveSeen(m) ==
  /\ idToPath.on
  /\ nodeEvents = <<>>
  /\ treeOps[m].pc = "returned"
  /\ treeOps[m].moved # NoId
  /\ treeOps[m].label = treeCalls
  /\ split(treeOps[m].initPath).folderPath # split(treeOps[m].newPath).folderPath
  /\ \E i \in 1..Len(received) : received[i].event.moveLabel = treeOps[m].label

\* C15: move label correlation: of a move between two folders the observer
\* of watchTree receives exactly one entry-removal and exactly one
\* entry-addition with the label of the move, and once both are processed
\* the map gives the moved node its new path.
C15_MoveLabelCorrelation ==
  \A m \in TreeCallers :
    CrossFolderMoveSeen(m) =>
      /\ Cardinality(ReceivedWith("entry-removal", treeOps[m].label)) = 1
      /\ Cardinality(ReceivedWith("entry-addition", treeOps[m].label)) = 1
      /\ mapGet(idToPath.map, treeOps[m].moved) = "." \o treeOps[m].newPath

\* The next two events of the storage are the entry-removal and the
\* entry-addition of one move between two folders.
MovePairNext ==
  /\ idToPath.on
  /\ Len(nodeEvents) >= 2
  /\ {nodeEvents[1].event.type, nodeEvents[2].event.type}
       = {"entry-removal", "entry-addition"}
  /\ nodeEvents[1].event.moveLabel # NoLabel
  /\ nodeEvents[1].event.moveLabel = nodeEvents[2].event.moveLabel

C17_EventsCarryCurrentPath ==
  \A i \in 1..Len(received) : received[i].event.path = received[i].at

\* ---------------------------------------------------------- folder: claims
\* C18: deleteFolder of a folder that has children fails with not-empty
\* carrying the path and leaves the tree as it is when removeContent is
\* false, and succeeds with the folder gone from its parent when
\* removeContent is true.
C18_DeleteNonEmptyFolder ==
  [][\A m \in TreeCallers :
       (treeOps'[m].op = "deleteFolder" /\ treeCalls' = treeCalls + 1) =>
         LET me == treeOps'[m]
             parts == splitPathIntoParts(me.initPath)
             node == nodeAt(tree, RootId, parts)
         IN (/\ parts # <<>>
             /\ node # NoId
             /\ typeOf(node) = "folder"
             /\ ~isEmpty(tree, node)) =>
              IF ~me.removeContent
              THEN /\ "notEmpty" \in me.exc.flags
                   /\ me.exc.path = me.initPath
                   /\ tree' = tree
              ELSE /\ me.exc.type = "none"
                   /\ nodeAt(tree', RootId, parts) = NoId
                   /\ tree'[node].state = "removed"]_vars

\* A folder with a child was removed with its content.
C18_Witness ==
  \E m \in TreeCallers :
    /\ treeOps[m].op = "deleteFolder"
    /\ treeOps[m].pc = "returned"
    /\ treeOps[m].removeContent
    /\ treeOps[m].exc.type = "none"
    /\ \E o \in ObjIds : tree[o].state = "removed" /\ tree[o].parent = treeOps[m].moved

\* ------------------------------------------------------- readBytes: claims
\* The content bytes in [start, min(end, size)), an omitted start meaning 0
\* and an omitted end meaning size.
RangeOf(obj, start, end) ==
  LET s == IF start = Undefined THEN 0 ELSE start
      e == IF end = Undefined THEN obj.size ELSE Min(end, obj.size)
  IN SubSeq(obj.content, s + 1, e)

AllowedLinks ==
  {<<"local", "local">>, <<"local", "synced">>, <<"local", "share">>,
   <<"synced", "synced">>, <<"synced", "share">>, <<"share", "share">>}

RECURSIVE canOpen(_, _, _)
canOpen(t, o, depth) ==
  IF depth = 0 THEN {o}
  ELSE {o} \cup UNION {canOpen(t, c, depth - 1) :
                         c \in {d \in children(t, o) : t[d].key = keyOf(d)}}

\* The sub-roots handed out: the folders of the readonlySubRoot calls that
\* returned one.
subRoots ==
  {treeOps[m].src : m \in {c \in TreeCallers :
                             /\ treeOps[c].op = "readonlySubRoot"
                             /\ treeOps[c].pc = "returned"
                             /\ treeOps[c].exc.type = "none"}}

WritesOutliveClose ==
  /\ close => UNCHANGED <<writers, fileNode, storeObj, changeLock>>
  /\ \A w \in Writers :
       /\ (Closed /\ storeSaves(w)) => storeObj'.version = writers[w].newVersion
       /\ (Closed /\ commit(w)) => fileNode'.version = writers[w].newVersion

\* C22: a write started before close runs to completion after close, its
\* new version saved to the store and committed to the node, while every
\* call made after close fails with a file exception marked storage-closed.
C22_WritesOutliveClose ==
  [][WritesOutliveClose /\ (Closed => CallsFailClosed)]_vars

\* --------------------------------------------------- node state: claims
\* A write has computed its new version and the store has not yet
\* completed the save of it.
SaveUnderWay(w) == writers[w].task = "saveObj"

\* C25: from the moment a write computes its new version until the store
\* save has completed and the final size is known, no step changes the
\* node's live version, attrs, xattrs or size.
C25_LiveStateUntilSaved ==
  [][\A w \in Writers :
       (SaveUnderWay(w) /\ SaveUnderWay(w)') => fileNode' = fileNode]_vars

\* C26: a write that succeeds commits the final size with its new version:
\* the size the sink has when done() is called for a streaming write, the
\* byte length of the bytes for a save; and no step of a write other than
\* its commit changes the node's size.
C26_FinalSizeWithVersion ==
  [][\A w \in Writers :
       LET me == writers[w]
       IN /\ Succeeds(w) =>
               /\ fileNode'.version = me.newVersion
               /\ fileNode'.fileSize = IF me.kind = "save" THEN Len(me.bytes)
                                        ELSE Len(me.sinkContent)
          /\ (writers'[w] # me /\ ~commit(w)) =>
               fileNode'.fileSize = fileNode.fileSize]_vars

\* A streaming write of at least one byte was done without error and is
\* committed.
C26_Witness ==
  \E w \in Writers :
    /\ writers[w].kind = "sink"
    /\ writers[w].task = "committed"
    /\ ~writers[w].doneErr
    /\ Len(writers[w].sinkContent) > 0
    /\ fileNode.version = writers[w].newVersion

\* ------------------------------------------------------ change lock: claims
\* The write holds the lock and is a save, or a streaming write whose
\* done() was called.
HoldsLockDone(w) ==
  /\ changeLock.holder = w
  /\ writers[w].kind = "save" \/ writers[w].caller = "inDone"

\* C27: a write whose change has failed (a writeSink that fails before it
\* returns a sink included) or committed does not hold the change lock; a
\* write that holds the lock and is a save, or a streaming write whose
\* done() was called with or without an error, eventually releases the
\* lock, and a write queued behind it on the same node eventually starts
\* its change.
C27_LockReleased ==
  \A w \in Writers :
    /\ [](writers[w].task \in {"rejected", "committed"} => changeLock.holder # w)
    /\ HoldsLockDone(w) ~> (changeLock.holder # w)
    /\ \A v \in Writers \ {w} :
         (HoldsLockDone(w) /\ writers[v].task = "queued")
           ~> (writers[v].task # "queued")

\* A streaming write was done with an error, its change has ended, and the
\* write queued behind it holds the lock.
C27_Witness ==
  \E w \in Writers, v \in Writers :
    /\ w # v
    /\ writers[w].caller = "inDone"
    /\ writers[w].doneErr
    /\ writers[w].task \in {"committed", "rejected"}
    /\ changeLock.holder = v

\* ----------------------------------------------------- node version: claims
\* C28: no step of a writer or of a reader lowers the node's live version,
\* and the new version that a write takes when its change starts is above
\* the version the store holds of the object.
C28_VersionNeverDecreases ==
  [][/\ fileNode'.version >= fileNode.version
     /\ \A w \in Writers :
          (changeStart(w) /\ writers'[w].task = "saveObj") =>
            writers'[w].newVersion > storeObj.version]_vars

\* ---------------------------------------------------- file-change: claims
\* An observer that stays subscribed over the step.
StaysSubscribed(o) ==
  watch[o].state = "subscribed" /\ watch'[o].state = "subscribed"

\* C29: the commit of a write that succeeds gives every subscribed observer
\* exactly one file-change event, which carries the version just committed;
\* no other step, that of a failed or abandoned write included, gives an
\* observer an event; and the versions an observer gets are in the order of
\* the writes.
C29_OneEventPerSuccessfulWrite ==
  [][\A o \in Watchers :
       /\ StaysSubscribed(o) =>
            IF \E w \in Writers : Succeeds(w)
            THEN watch'[o].got = Append(watch[o].got, fileNode'.version)
            ELSE watch'[o].got = watch[o].got
       /\ \A i, j \in DOMAIN watch'[o].got :
            i < j => watch'[o].got[i] < watch'[o].got[j]]_vars

\* ------------------------------------------------------- reader: claims
\* C30: on a local or synced storage a read returns the version of the
\* object it got from the store, and a read that found this version above
\* the node's when it got the object sets the node's version, attrs,
\* xattrs and size to those of that object, while any other read leaves
\* the node as it is; on a share storage a read returns no version,
\* compares none and leaves the node as it is.
C30_ReadRefresh ==
  [][\A r \in Readers :
       /\ readGetObj(r) =>
            (readers'[r].refresh <=>
               /\ storageType \in {"local", "synced"}
               /\ storeObj.version # 0
               /\ fileNode.version < storeObj.version)
       /\ readReturns(r) =>
            LET obj == readers[r].objSrc
            IN /\ readers'[r].version =
                    IF storageType = "share" THEN Undefined ELSE obj.version
               /\ IF readers[r].refresh
                  THEN /\ fileNode'.version = obj.version
                       /\ fileNode'.attrs = obj.attrs
                       /\ fileNode'.xattrs = obj.xattrs
                       /\ fileNode'.fileSize = obj.size
                  ELSE fileNode' = fileNode]_vars

\* A read returned the version of an object that the store has and the
\* writer has not committed yet, and the node has that version.
C30_Witness ==
  \E r \in Readers, w \in Writers :
    /\ readers[r].pc = "returned"
    /\ writers[w].task = "awaitSize"
    /\ readers[r].version = writers[w].newVersion
    /\ fileNode.version = writers[w].newVersion

\* C31 watchTree fills the map with (rootObjId, ".") and with one entry,
\* objId to path, for every node of the watched subtree: folders, files
\* and links alike.
C31_InitialMapCoversSubtree ==
  [][watchTree =>
       /\ mapGet(idToPath'.map, RootId) = "."
       /\ \A o \in subTree(tree, RootId, Cardinality(ObjIds)) :
            /\ mapHas(idToPath'.map, o)
            /\ mapGet(idToPath'.map, o) = pathOf(tree, o, Cardinality(ObjIds))]_vars

\* The folders the watched root leads to.
foldersOfTree(t) ==
  {o \in subTree(t, RootId, Cardinality(ObjIds)) : typeOf(o) = "folder"}

\* C32 The initial map of watchTree is the watched subtree at one instant
\* and no event after that instant is missed: when the subscription to the
\* events of the storage starts, with no event waiting for it, the map
\* holds the folders of the tree as it is then, each with its path, and
\* the setup never fails on a move that runs beside it.
C32_ConsistentSnapshot ==
  [][/\ watchTreeSubscribe =>
          /\ \A o \in foldersOfTree(tree) :
               /\ mapHas(idToPath'.map, o)
               /\ mapGet(idToPath'.map, o) = pathOf(tree, o, Cardinality(ObjIds))
          /\ \A i \in 1..Len(idToPath'.map) :
               idToPath'.map[i].key \in foldersOfTree(tree)
     /\ watchTreeVisit => idToPath'.fill # "failed"]_vars

\* ------------------------------------------------------------ path: claims
\* C33 as stated: a path is split on '/' into its non-empty segments in
\* order, '.' and '..' being kept as segment names; the root path gives the
\* empty list.
C33_PathParsing ==
  probe.op = "splitPathIntoParts" =>
    /\ probe.parts = SelectSeq(splitOnSlash(probe.path, <<>>, <<>>),
                               LAMBDA piece : piece # <<>>)
    /\ probe.path = <<"/">> => probe.parts = <<>>

\* The path without its last piece and the separator before it.
pathBefore(chars) ==
  LET pieces == splitOnSlash(chars, <<>>, <<>>)
      last == pieces[Len(pieces)]
  IN SubSeq(chars, 1, Len(chars) - Len(last) - 1)

lastPiece(chars) ==
  LET pieces == splitOnSlash(chars, <<>>, <<>>) IN pieces[Len(pieces)]

\* C33, amended: the path is resolved from the root before it is split: no
\* part is empty, '.' or '..'; a path none of whose pieces is '.' or '..'
\* gives its non-empty pieces in order; a last piece that is empty or '.'
\* adds nothing to the parts of the path before it, a last piece '..' takes
\* the last of them away (none at the root), and any other last piece is
\* appended to them; the root path gives the empty list.
C33_PathParsingAmended ==
  probe.op = "splitPathIntoParts" =>
    LET pieces == splitOnSlash(probe.path, <<>>, <<>>)
        before == IF Len(pieces) = 1 THEN <<>>
                  ELSE splitCharsIntoParts(pathBefore(probe.path))
        last == lastPiece(probe.path)
    IN /\ \A i \in 1..Len(probe.parts) :
            probe.parts[i] \notin {<<>>, <<".">>, <<".", ".">>}
       /\ (\A i \in 1..Len(pieces) : pieces[i] \notin {<<".">>, <<".", ".">>})
            => probe.parts = SelectSeq(pieces, LAMBDA piece : piece # <<>>)
       /\ probe.parts =
            IF last \in {<<>>, <<".">>} THEN before
            ELSE IF last = <<".", ".">>
                 THEN (IF before = <<>> THEN <<>>
                       ELSE SubSeq(before, 1, Len(before) - 1))
                 ELSE Append(before, last)
       /\ probe.path = <<"/">> => probe.parts = <<>>

\* A path with a '..' after a name was parsed, and neither is among the
\* parts.
C33_Witness ==
  /\ probe.op = "splitPathIntoParts"
  /\ probe.path = <<"a", "/", ".", ".">>
  /\ probe.parts = <<>>

\* -------------------------------------------------------- MsgPacker: claims
\* The keys of an object: its own, and those of its nodes by name.
keysOf(obj) ==
  [own |-> obj.key,
   nodes |-> [i \in 1..Len(obj.nodes) |->
                [name |-> obj.nodes[i].name, key |-> obj.nodes[i].key]]]

\* C34 MsgPacker.fromPack(pack()) restores the keys held before pack():
\* every object of the packer that made the pack is in the new packer with
\* its own key bytes, and every node of a folder object with the key bytes
\* of the child it names.
C34_PackRoundTripKeepsKeys ==
  [][\A key \in RandomKeys :
       (fromPack(key)
        /\ \A i \in 1..Len(packer.allObjs) :
             packer.allObjs[i].value.key.enc = "bytes")
       => \A i \in 1..Len(packer.allObjs) :
            LET held == packer.allObjs[i].value
                restored == mapGet(packer'.allObjs, held.id)
            IN /\ mapHas(packer'.allObjs, held.id)
               /\ keysOf(restored) = keysOf(held)
               /\ \A n \in 1..Len(restored.nodes) :
                    restored.nodes[n].key
                      = mapGet(packer.allObjs, restored.nodes[n].objId).key]_vars

\* C35 deleteFolder(path, false) never removes a folder that has children
\* at the moment it is removed from its parent, whatever runs between its
\* check for content and the removal.
C35_NoRemovalOfFolderWithChildren ==
  [][\A m \in TreeCallers :
       (/\ deleteFolderRemove(m)
        /\ ~treeOps[m].removeContent
        /\ tree'[treeOps[m].moved].state = "removed")
       => isEmpty(tree, treeOps[m].moved)]_vars

\* -------------------------------------------------- pending moves: claims
\* C36 Once the watcher of the tree has processed both the entry-removal
\* and the entry-addition of a move label, the pending moves hold no entry
\* for the label: a label that is pending has an event of its own still
\* waiting to be processed.
C36_PendingMovesCleanedUp ==
  \A i \in 1..Len(idToPath.moves) :
    \E j \in 1..Len(nodeEvents) :
      nodeEvents[j].event.moveLabel = idToPath.moves[i].key

\* ------------------------------------------------------ RemoteEvents: claims
\* C38 A failure while one remote event is handled, in finding the object,
\* in recording its status or in the processing by the node, does not stop
\* the absorption: the subscription to the events of the server ends only
\* when close() is called.
C38_FailureIsolation ==
  [][remote.sub = "on" => remote'.sub \in {"on", "closed"}]_vars

\* ------------------------------------------------------------ addMsg: claims
\* C40 The message unpacked on the side of the core from the packing on
\* the side of the caller has the msgType, msgId, subject, plainTxtBody,
\* htmlTxtBody, jsonBody, recipients and carbonCopy of the message given.
C40_AddMsgRoundTrip ==
  probe.op = "addMsg" =>
    /\ probe.unpacked.msgType = probe.msg.msgType
    /\ probe.unpacked.msgId = probe.msg.msgId
    /\ probe.unpacked.subject = probe.msg.subject
    /\ probe.unpacked.plainTxtBody = probe.msg.plainTxtBody
    /\ probe.unpacked.htmlTxtBody = probe.msg.htmlTxtBody
    /\ probe.unpacked.jsonBody = probe.msg.jsonBody
    /\ probe.unpacked.recipients = probe.msg.recipients
    /\ probe.unpacked.carbonCopy = probe.msg.carbonCopy

\* The calls of a MsgPacker that change the message.
MutatingCalls ==
  {"setPlainTextBody", "setSection", "setEstablishedKeyPairInfo",
   "setNextCrypto", "setNextSendingParams", "setAttachments"}

\* C39 A packed message is immutable: once pack() has returned, every
\* later pack() returns the same pack, every call that changes the message
\* throws, and the bytes of the main object made for sending are those of
\* the content at the time of the pack.
C39_PackedMessageImmutable ==
  [][alreadyPacked =>
       /\ packer'.last.op = "pack" =>
            /\ ~packer'.last.threw
            /\ packer'.readyPack = packer.readyPack
       /\ packer'.last.op \in MutatingCalls =>
            /\ packer'.last.threw
            /\ packer'.main = packer.main
       /\ packer'.last.op = "getSrcForMainObj" =>
            packer'.last.json
              = mapGet(packer.readyPack.objs, packer.readyPack.mainObjId).json]_vars

====
